---- MODULE Spec2Model ----
(***************************************************************************)
(* Model of the Resolver (lazy resolution cache) and of the middleware     *)
(* composer of cloudflare-workers-compatible-route-dispatcher.js.          *)
(*                                                                         *)
(* An async function runs synchronously up to its first await; every await *)
(* is a suspension point at which any other operation may run.  Each       *)
(* action below is one synchronous run of the code between two suspension  *)
(* points.                                                                 *)
(***************************************************************************)
EXTENDS Integers, Sequences, FiniteSets, TLC

\* ---------------------------------------------------------------- bounds
MaxCalls == 2      \* get/reload calls issued in one behaviour (SpecResolver)
MaxLoads == 2      \* _loadAndResolve invocations in one behaviour (SpecResolver)
DeepCalls == 3     \* the same two bounds under SpecResolverDeep
DeepLoads == 3
MaxMw == 2         \* middlewares given to compose
MaxNext == 2       \* calls of next one stage makes
MaxRoutes == 2     \* routes registered on the dispatcher (SpecMatch)
MaxPathLen == 3    \* segments of a pathname given to matchRoute
MaxSubRoutes == 2  \* routes registered on the subrouter (SpecMount)
MaxMounts == 1     \* calls of mount
MaxGlobal == 2     \* middlewares given to use (SpecRespond)
MaxRouteMw == 2    \* middlewares given with one route (SpecRespond)
MaxServedRoutes == MaxRoutes - 1   \* routes registered under SpecRespond
MaxTerminal == 2   \* terminal operations after the first response (SpecBuilder)
MaxChunks == 1     \* chunks written to the stream of a builder
MaxRules == 2      \* rules of an AccessRateLimiter
MaxHandled == 2    \* requests given to its middleware
MaxClock == 1      \* the last value of Date.now()

Keys == {"k1"}
Producers == {"P1"}           \* AsyncFunction values given to add
PlainRaws == {-1}             \* plain (truthy, non-producer) values given to add

\* ---------------------------------------------------------------- values
\* A value: raw = 0 is null, raw < 0 a plain value given to add, raw = n > 0
\* the result of producer invocation n; wraps counts the applications of
\* `new Adapter(.)`.
NullV == [raw |-> 0, wraps |-> 0]
IsNull(v) == v = NullV
Fresh(n) == [raw |-> n, wraps |-> 0]
Plain(r) == [raw |-> r, wraps |-> 0]

\* An entry of _promisedValues; producer = "none" stands for no entry.
NoLoader == [producer |-> "none", Adapter |-> FALSE, purge |-> FALSE]
HasLoader(le) == le.producer # "none"

\* An entry of _resolvedValues; present = FALSE stands for no entry.
\* loaded is history: the entry was stored by _loadAndResolve, not by add.
NoEntry == [present |-> FALSE, Adapter |-> FALSE, value |-> NullV, loaded |-> FALSE]

VARIABLES
  resolvedValues,   \* Resolver._resolvedValues: key -> entry
  promisedValues,   \* Resolver._promisedValues: key -> loader entry
  pendingLoads,     \* Resolver._pendingLoads: key -> load id (0: none)
  loads,            \* the _loadAndResolve invocations, by id
  calls,            \* the suspended get/reload calls and those that ended
                    \* in the last step
  issued,           \* number of get/reload calls issued so far
  reg,              \* history: what the last add/delete/clear left per key
  lim               \* the bounds of this behaviour: [calls, loads]

resolverVars ==
  <<resolvedValues, promisedValues, pendingLoads, loads, calls, issued, reg, lim>>

VARIABLES
  middlewares,      \* the middlewares argument of compose: what each does
  finalHandler,     \* the finalHandler argument of compose: what it does
  runs              \* per invocation of execute: its `index` (line 834), the
                    \* stack of stages that have not returned, its outcome,
                    \* and history (started: the stages in start order; log:
                    \* per stage, how each of its calls of next ended)

composeVars == <<middlewares, finalHandler, runs>>

VARIABLES
  routes,           \* RouteDispatcher.routes: method -> the routes in
                    \* registration order; its domain is the methods it has
  subRoutes,        \* the routes of a second RouteDispatcher, the subrouter
                    \* given to mount
  mountLog,         \* history: the mount calls made, each with its prefix
                    \* and the routes the parent held before it
  probe,            \* history: the last call of matchRoute and its result
  globalMws,        \* RouteDispatcher.middlewares, filled by use
  errorHandler,     \* RouteDispatcher._errorHandler, set by onError
  rq,               \* the request respond is serving, and its outcome
  securityHeaders   \* RouteDispatcher._securityHeaders

dispatcherVars ==
  <<routes, subRoutes, mountLog, probe, globalMws, errorHandler, rq, securityHeaders>>

VARIABLES
  builder,          \* a ResponseBuilder: its fields
  heap,             \* the Headers, streams and Responses it and its
                    \* responses refer to
  sent              \* history: what its terminal operations returned

builderVars == <<builder, heap, sent>>

VARIABLES
  rules,            \* AccessRateLimiter.rules
  storage,          \* the Map of AccessRateLimiter._storage
  clock,            \* Date.now()
  handling          \* the calls of the middleware: where each one is

limiterVars == <<rules, storage, clock, handling>>

vars == <<resolverVars, composeVars, dispatcherVars, builderVars, limiterVars>>

\* History of a key: kind is "none", "plain" or "lazy"; plain is the plain
\* value of the last add; open holds from a lazy add until the first load
\* of the key ends or the key is added, deleted or cleared.
NoReg == [kind |-> "none", plain |-> NullV, open |-> FALSE]

InitResolverWith(l) ==
  /\ resolvedValues = [k \in Keys |-> NoEntry]
  /\ promisedValues = [k \in Keys |-> NoLoader]
  /\ pendingLoads = [k \in Keys |-> 0]
  /\ loads = << >>
  /\ calls = << >>
  /\ issued = 0
  /\ reg = [k \in Keys |-> NoReg]
  /\ lim = l

\* -------------------------------------------------------- _loadAndResolve
\* Mutant of Adapted: the adapter is applied to its own result again.
AdaptedTwice(le, v) == IF le.Adapter THEN [v EXCEPT !.wraps = @ + 2] ELSE v

\* line 188: loaderEntry.Adapter ? new loaderEntry.Adapter(value) : value
Adapted(le, v) == IF le.Adapter THEN [v EXCEPT !.wraps = @ + 1] ELSE v

\* History of a load: why it was started.  "open": by a get issued while
\* the key was lazy and no load of it had ended; "purged": by a get whose
\* purge predicate answered true for the cached value of load `raw`.
NoWhy == [kind |-> "x", raw |-> 0]

\* A load that has just called the producer (line 187, up to its await).
NewLoad(k, le, why) ==
  [key |-> k, loader |-> [le EXCEPT !.purge = FALSE], state |-> "running", why |-> why]

\* A load that has ended keeps its key, how it ended and its history.
Ended(ld, st) == [ld EXCEPT !.loader = NoLoader, !.state = st]

InFlight(k) == {l \in DOMAIN loads : loads[l].key = k /\ loads[l].state = "running"}

\* ------------------------------------------------------------------ calls
\* What a get finds at issue (history): "gone" (the key is not registered),
\* "plain", "open" (lazy, no load of the key has ended since the add),
\* "cached" (lazy, the entry was stored by a load), "lazy" otherwise.
TagAt(k) ==
  CASE reg[k].kind = "none" -> "gone"
    [] reg[k].kind = "plain" -> "plain"
    [] reg[k].open -> "open"
    [] resolvedValues[k].loaded -> "cached"
    [] OTHER -> "lazy"

\* A call of get or reload.  loader and seen are the locals loaderEntry and
\* resolvedEntry.value (lines 124-125): snapshots, not re-read after an
\* await.  pc: "purge" (suspended at the await of line 128), "await"
\* (suspended at an await of the promise of load `wait`), "done", "failed"
\* (rejected).  History: purged (the answer of the purge predicate), tag
\* (TagAt at issue, "reload" for a reload, "x" once the key was added,
\* deleted or cleared), expect (the plain value registered at issue), via
\* (whether the result came from the cache or from a load).
NewCall(o, k) ==
  [key |-> k, pc |-> "run",
   loader |-> promisedValues[k], seen |-> resolvedValues[k].value,
   purged |-> FALSE, wait |-> 0, ret |-> NullV, via |-> "none",
   tag |-> IF o = "reload" THEN "reload" ELSE TagAt(k),
   expect |-> reg[k].plain]

Active(call) == call.pc \in {"purge", "await"}

\* The calls still suspended: those that ended in the last step are dropped.
Live == SelectSeq(calls, Active)

\* A call that has ended keeps its result and its history.
Finish(call, st, v, how) ==
  [call EXCEPT !.pc = st, !.ret = v, !.via = how, !.loader = NoLoader, !.wait = 0]

\* A call suspended on the promise of load l; of its snapshots it keeps
\* what its history needs.
Waiting(call, l) ==
  [call EXCEPT !.pc = "await", !.wait = l, !.loader = NoLoader,
               !.seen = IF call.tag = "cached" THEN call.seen ELSE NullV,
               !.purged = (call.tag = "cached" /\ call.purged)]

\* Why a call starts a load (history).
WhyOf(call) ==
  CASE call.tag = "open" -> [kind |-> "open", raw |-> 0]
    [] call.tag = "cached" /\ call.purged -> [kind |-> "purged", raw |-> call.seen.raw]
    [] OTHER -> NoWhy

\* Ends the history of the calls on the keys in ks.
Disturb(ks) ==
  [c \in DOMAIN Live |->
     IF Live[c].key \in ks THEN [Live[c] EXCEPT !.tag = "x"] ELSE Live[c]]

\* Ends the history of the loads of the keys in ks.
Forget(ks) ==
  [l \in DOMAIN loads |->
     IF loads[l].key \in ks THEN [loads[l] EXCEPT !.why = NoWhy] ELSE loads[l]]

Return(cs, c, v, how) ==
  /\ calls' = [cs EXCEPT ![c] = Finish(@, "done", v, how)]
  /\ UNCHANGED <<loads, pendingLoads>>

\* lines 137-143 and 177-183: await the promise _pendingLoads holds for the
\* key (a rejected one rejects the call), or call _loadAndResolve, which
\* calls the producer at once, record its promise and await it.
JoinOrLoad(cs, c, k, le) ==
  IF pendingLoads[k] # 0
  THEN /\ calls' = [cs EXCEPT ![c] =
            IF loads[pendingLoads[k]].state = "running"
            THEN Waiting(@, pendingLoads[k])
            ELSE Finish(@, "failed", NullV, "load")]
       /\ UNCHANGED <<loads, pendingLoads>>
  ELSE /\ Len(loads) < lim.loads
       /\ loads' = Append(loads, NewLoad(k, le, WhyOf(cs[c])))
       /\ pendingLoads' = [pendingLoads EXCEPT ![k] = Len(loads) + 1]
       /\ calls' = [cs EXCEPT ![c] = Waiting(@, Len(loads) + 1)]

\* lines 131-146 of get, on the snapshots taken at lines 124-125; present
\* is whether resolvedEntry was there.
GetTail(cs, c, present) ==
  LET call == cs[c]
  IN IF present /\ ~IsNull(call.seen) THEN Return(cs, c, call.seen, "cache")
     ELSE IF ~present THEN Return(cs, c, NullV, "none")
     ELSE IF HasLoader(call.loader) THEN JoinOrLoad(cs, c, call.key, call.loader)
     ELSE Return(cs, c, NullV, "none")

\* lines 174-183 of reload: reads _promisedValues when it is called.
ReloadBody(cs, c) ==
  LET k == cs[c].key
      le == promisedValues[k]
  IN IF ~HasLoader(le) THEN Return(cs, c, NullV, "none")
     ELSE JoinOrLoad(cs, c, k, le)

\* get(key), lines 123-147, up to its first await or its return.  The purge
\* predicate is called at line 128 on the cached value (null included); its
\* answer p is what the await yields later.
Get(k, p) ==
  /\ issued < lim.calls
  /\ issued' = issued + 1
  /\ LET new == NewCall("get", k)
         cs == Append(Live, new)
         c == Len(Live) + 1
     IN IF resolvedValues[k].present /\ HasLoader(new.loader) /\ new.loader.purge
        THEN /\ calls' = [cs EXCEPT ![c] = [@ EXCEPT !.pc = "purge", !.purged = p]]
             /\ UNCHANGED <<loads, pendingLoads>>
        ELSE /\ p = FALSE
             /\ GetTail(cs, c, resolvedValues[k].present)
  /\ UNCHANGED <<resolvedValues, promisedValues, reg, lim, composeVars, dispatcherVars,
                 builderVars, limiterVars>>

\* get resumed after `await loaderEntry.purge(...)`: line 129 or lines
\* 131-146 (resolvedEntry was there, or line 128 had not been reached).
GetAfterPurge(c) ==
  /\ c \in DOMAIN Live
  /\ Live[c].pc = "purge"
  /\ IF Live[c].purged THEN ReloadBody(Live, c) ELSE GetTail(Live, c, TRUE)
  /\ UNCHANGED <<resolvedValues, promisedValues, issued, reg, lim, composeVars, dispatcherVars,
                 builderVars, limiterVars>>

\* reload(key), lines 173-184, up to its first await or its return.
Reload(k) ==
  /\ issued < lim.calls
  /\ issued' = issued + 1
  /\ ReloadBody(Append(Live, NewCall("reload", k)), Len(Live) + 1)
  /\ UNCHANGED <<resolvedValues, promisedValues, reg, lim, composeVars, dispatcherVars,
                 builderVars, limiterVars>>

\* The calls awaiting the promise of load l get its outcome (line 195, or
\* the rejection).
Settle(l, st, v) ==
  [c \in DOMAIN Live |->
     IF Live[c].pc = "await" /\ Live[c].wait = l
     THEN Finish(Live[c], st, v, "load") ELSE Live[c]]

\* _loadAndResolve resumed with the producer's result, lines 187-195: the
\* producer yields null or a value no other invocation yields.
LoadComplete(l, isNull) ==
  LET ld == loads[l]
      adapted == Adapted(ld.loader, IF isNull THEN NullV ELSE Fresh(l))
  IN /\ ld.state = "running"
     /\ resolvedValues' = [resolvedValues EXCEPT ![ld.key] =
          [present |-> TRUE, Adapter |-> ld.loader.Adapter,
           value |-> adapted, loaded |-> TRUE]]
     /\ pendingLoads' = [pendingLoads EXCEPT ![ld.key] = 0]
     /\ loads' = [loads EXCEPT ![l] = Ended(@, "ok")]
     /\ calls' = Settle(l, "done", adapted)
     /\ reg' = [reg EXCEPT ![ld.key] = [@ EXCEPT !.open = FALSE]]
     /\ UNCHANGED <<promisedValues, issued, lim, composeVars, dispatcherVars, builderVars, limiterVars>>

\* The producer rejects, or the Adapter constructor throws (lines 187-188):
\* lines 189-194 do not run, the promise of the load rejects.
LoadFail(l) ==
  /\ l \in DOMAIN loads
  /\ loads[l].state = "running"
  /\ loads' = [loads EXCEPT ![l] = Ended(@, "fail")]
  /\ calls' = Settle(l, "failed", NullV)
  /\ reg' = [reg EXCEPT ![loads[l].key] = [@ EXCEPT !.open = FALSE]]
  /\ UNCHANGED <<resolvedValues, promisedValues, pendingLoads, issued, lim, composeVars, dispatcherVars,
                 builderVars, limiterVars>>

\* add({key, value: async function, Adapter, purge}), lines 151-161.
AddLazy(k, p, a, pu) ==
  /\ promisedValues' = [promisedValues EXCEPT ![k] =
       [producer |-> p, Adapter |-> a, purge |-> pu]]
  /\ resolvedValues' = [resolvedValues EXCEPT ![k] =
       [present |-> TRUE, Adapter |-> a, value |-> NullV, loaded |-> FALSE]]
  /\ reg' = [reg EXCEPT ![k] = [kind |-> "lazy", plain |-> NullV, open |-> TRUE]]
  /\ calls' = Disturb({k})
  /\ loads' = Forget({k})
  /\ UNCHANGED <<pendingLoads, issued, lim, composeVars, dispatcherVars, builderVars, limiterVars>>

\* add({key, value: a truthy value that is no async function, Adapter}),
\* lines 162-168: _promisedValues is not touched.
AddPlain(k, r, a) ==
  /\ resolvedValues' = [resolvedValues EXCEPT ![k] =
       [present |-> TRUE, Adapter |-> a, value |-> Plain(r), loaded |-> FALSE]]
  /\ reg' = [reg EXCEPT ![k] = [kind |-> "plain", plain |-> Plain(r), open |-> FALSE]]
  /\ calls' = Disturb({k})
  /\ loads' = Forget({k})
  /\ UNCHANGED <<promisedValues, pendingLoads, issued, lim, composeVars, dispatcherVars,
                 builderVars, limiterVars>>

\* add(null), add without key, add with a falsy value: line 150 skips it.
AddIgnored ==
  /\ calls' = Live
  /\ UNCHANGED <<resolvedValues, promisedValues, pendingLoads, loads, issued, reg, lim, composeVars, dispatcherVars,
                 builderVars, limiterVars>>

\* delete(key), lines 111-115.
Delete(k) ==
  /\ resolvedValues' = [resolvedValues EXCEPT ![k] = NoEntry]
  /\ promisedValues' = [promisedValues EXCEPT ![k] = NoLoader]
  /\ pendingLoads' = [pendingLoads EXCEPT ![k] = 0]
  /\ reg' = [reg EXCEPT ![k] = NoReg]
  /\ calls' = Disturb({k})
  /\ loads' = Forget({k})
  /\ UNCHANGED <<issued, lim, composeVars, dispatcherVars, builderVars, limiterVars>>

\* clear(), lines 117-121.
Clear ==
  /\ resolvedValues' = [k \in Keys |-> NoEntry]
  /\ promisedValues' = [k \in Keys |-> NoLoader]
  /\ pendingLoads' = [k \in Keys |-> 0]
  /\ reg' = [k \in Keys |-> NoReg]
  /\ calls' = Disturb(Keys)
  /\ loads' = Forget(Keys)
  /\ UNCHANGED <<issued, lim, composeVars, dispatcherVars, builderVars, limiterVars>>

NextResolver ==
  \/ \E k \in Keys, p \in BOOLEAN : Get(k, p)
  \/ \E c \in DOMAIN Live : GetAfterPurge(c)
  \/ \E k \in Keys : Reload(k)
  \/ \E l \in DOMAIN loads, n \in BOOLEAN : LoadComplete(l, n)
  \/ \E l \in DOMAIN loads : LoadFail(l)
  \/ \E k \in Keys, p \in Producers, a \in BOOLEAN, pu \in BOOLEAN : AddLazy(k, p, a, pu)
  \/ \E k \in Keys, r \in PlainRaws : AddPlain(k, r, FALSE)
  \/ AddIgnored
  \/ \E k \in Keys : Delete(k)
  \/ Clear

\* ---------------------------------------------------------------- compose
\* compose(middlewares, finalHandler), lines 814-844.  Stage i < n is
\* middlewares[i], stage n is finalHandler (n = middlewares.length).
\* What a stage does is an input: it calls next `calls` times, one call
\* after the other; it returns what its first call of next yielded
\* (propagate) or a value of its own; an error a call of next raises is
\* caught (catches) or leaves the stage as its own error.
Behaviours ==
  {b \in [calls : 0..MaxNext, propagate : BOOLEAN, catches : BOOLEAN] :
     b.calls = 0 => (~b.propagate /\ ~b.catches)}

Undef == -1        \* undefined
Own(i) == i        \* the value stage i returns when it returns its own

Runs == {"r1"}     \* invocations of the composed pipeline

NumMw == Len(middlewares)
Stages == 0..NumMw

\* line 838: i === middlewares.length ? finalHandler : middlewares[i]
Fn(i) == IF i = NumMw THEN finalHandler ELSE middlewares[i + 1]

IdleRun ==
  [status |-> "idle", index |-> -1, stack |-> << >>, result |-> Undef,
   started |-> << >>, log |-> [i \in Stages |-> << >>]]

InitCompose ==
  /\ \E n \in 0..MaxMw : middlewares \in [1..n -> Behaviours]
  /\ finalHandler \in Behaviours
  /\ runs = [r \in Runs |-> IdleRun]

\* compose is not used: an empty pipeline that is never invoked.
InitComposeUnused ==
  /\ middlewares = << >>
  /\ finalHandler = [calls |-> 0, propagate |-> FALSE, catches |-> FALSE]
  /\ runs = [r \in Runs |-> IdleRun]

\* A stage that has been called: made counts its calls of next, first is
\* what the first of them yielded, err an error it is about to leave with.
Frame(i) == [stage |-> i, made |-> 0, first |-> Undef, err |-> FALSE]

\* Mutant of DispatchOutcome: the guard of line 836 written with <.
DispatchOutcomeLax(idx, i) ==
  IF i < idx THEN "throw"
  ELSE IF i > NumMw THEN "return"
  ELSE "call"

\* Mutant of DispatchOutcome: line 838 without the finalHandler case.
DispatchOutcomeNoHandler(idx, i) ==
  IF i <= idx THEN "throw"
  ELSE IF i >= NumMw THEN "return"
  ELSE "call"

\* dispatch(i), lines 836-839, with `index` = idx: it throws 'next() called
\* multiple times', returns undefined because there is no fn, or calls fn.
DispatchOutcome(idx, i) ==
  IF i <= idx THEN "throw"
  ELSE IF i > NumMw THEN "return"
  ELSE "call"

\* Mutant of DispatchReturn: line 840 without its `return`.
DispatchDropsResult(v) == Undef

\* line 840: dispatch returns what fn returned.
DispatchReturn(v) == v

\* The caller of the stage on top of the stack gets its outcome: the frame
\* is popped; the stage below it, if any, resumes from its call of next.
Deliver(run, isErr, v) ==
  LET rest == SubSeq(run.stack, 1, Len(run.stack) - 1)
      p == rest[Len(rest)]
  IN IF rest = << >>
     THEN [run EXCEPT !.stack = rest,
                      !.status = IF isErr THEN "failed" ELSE "done",
                      !.result = IF isErr THEN Undef ELSE v]
     ELSE [run EXCEPT !.stack = [rest EXCEPT ![Len(rest)] =
             IF isErr THEN [p EXCEPT !.err = ~Fn(p.stage).catches]
             ELSE IF p.made = 1 THEN [p EXCEPT !.first = v]
             ELSE p]]

\* Mutant of Index: `index` declared in compose, one for all the
\* invocations of the pipeline.
IndexOfPipeline(r) ==
  CHOOSE m \in {runs[q].index : q \in DOMAIN runs} : \A q \in DOMAIN runs : runs[q].index <= m

\* line 834: `let index` belongs to the invocation of execute.
Index(r) == runs[r].index

\* execute(req, res, env, ctx), lines 833-842: index = -1, dispatch(0).
Execute(r) ==
  /\ runs[r].status = "idle"
  /\ runs' = [runs EXCEPT ![r] =
       [@ EXCEPT !.status = "running", !.index = 0,
                 !.stack = << Frame(0) >>, !.started = << 0 >>]]
  /\ UNCHANGED <<middlewares, finalHandler, resolverVars, dispatcherVars, builderVars, limiterVars>>

\* The running stage calls its next, () => dispatch(i + 1), lines 835-840.
CallNext(r) ==
  LET run == runs[r]
      top == Len(run.stack)
      f == run.stack[top]
      i == f.stage + 1
      out == DispatchOutcome(Index(r), i)
      g == [f EXCEPT !.made = @ + 1]
  IN /\ run.status = "running"
     /\ ~f.err
     /\ f.made < Fn(f.stage).calls
     /\ runs' = [runs EXCEPT ![r] =
          CASE out = "throw" ->
                 [run EXCEPT !.stack[top] = [g EXCEPT !.err = ~Fn(f.stage).catches],
                             !.log[f.stage] = Append(@, "error")]
            [] out = "return" ->
                 [run EXCEPT !.index = i,
                             !.stack[top] = g,
                             !.log[f.stage] = Append(@, "nothing")]
            [] OTHER ->
                 [run EXCEPT !.index = i,
                             !.stack = Append([run.stack EXCEPT ![top] = g], Frame(i)),
                             !.started = Append(@, i),
                             !.log[f.stage] = Append(@, "called")]]
     /\ UNCHANGED <<middlewares, finalHandler, resolverVars, dispatcherVars, builderVars, limiterVars>>

\* The running stage returns; `return await fn(...)` of line 840 (or of
\* line 842 for stage 0) hands its value on.
StageReturn(r) ==
  LET run == runs[r]
      f == run.stack[Len(run.stack)]
      b == Fn(f.stage)
  IN /\ run.status = "running"
     /\ ~f.err
     /\ f.made = b.calls
     /\ runs' = [runs EXCEPT ![r] =
          Deliver(run, FALSE, DispatchReturn(IF b.propagate THEN f.first ELSE Own(f.stage)))]
     /\ UNCHANGED <<middlewares, finalHandler, resolverVars, dispatcherVars, builderVars, limiterVars>>

\* The running stage leaves with the error of a call of next it did not
\* catch: the await of line 840 rethrows it to the caller.
StageThrow(r) ==
  LET run == runs[r]
      f == run.stack[Len(run.stack)]
  IN /\ run.status = "running"
     /\ f.err
     /\ runs' = [runs EXCEPT ![r] = Deliver(run, TRUE, Undef)]
     /\ UNCHANGED <<middlewares, finalHandler, resolverVars, dispatcherVars, builderVars, limiterVars>>

NextCompose ==
  \/ \E r \in Runs : Execute(r)
  \/ \E r \in Runs : CallNext(r)
  \/ \E r \in Runs : StageReturn(r)
  \/ \E r \in Runs : StageThrow(r)

\* ------------------------------------------------------------- matchRoute
\* A string (a route path, a pathname, a mount prefix) is the sequence of
\* its tokens: "/" and the texts between slashes.  "/f/:id" is
\* <<"/", "f", "/", ":id">>, "/" is <<"/">>, "" is << >>.  String equality
\* is equality of the sequences.
Slash == "/"

NotSlash(t) == t # Slash

\* s.split('/').filter(Boolean), lines 570 and 577
Split(s) == SelectSeq(s, NotSlash)

\* s.startsWith('/'), s.endsWith('/')
StartsWithSlash(s) == s # << >> /\ s[1] = Slash
EndsWithSlash(s) == s # << >> /\ s[Len(s)] = Slash

\* "/" + parts.join("/"): the string written with one slash before each part
RECURSIVE Str(_)
Str(parts) ==
  IF parts = << >> THEN << Slash >>
  ELSE IF Len(parts) = 1 THEN << Slash, parts[1] >>
  ELSE << Slash, parts[1] >> \o Str(Tail(parts))

\* What lines 589, 600-601, 622-638 make of a pattern part: a part that
\* starts with neither ':' nor '*' is a literal; ':name!v1!..' is a param
\* with its forbidden values; '*' is the plain catch-all; another part
\* starting with '*' is read with the regular expression of line 631, which
\* wants the colon: countSpec is << >> for '', <<n>> for 'n', <<n, m>> for
\* 'n-m'; name is "" when there is none.
Syntax(part) ==
  CASE part = ":id" -> [kind |-> "param", name |-> "id", forbidden |-> {}]
    [] part = ":id!a" -> [kind |-> "param", name |-> "id", forbidden |-> {"a"}]
    [] part = "*" -> [kind |-> "star"]
    [] part = "*:rest" -> [kind |-> "wildcard", countSpec |-> << >>, name |-> "rest"]
    [] part = "*:" -> [kind |-> "wildcard", countSpec |-> << >>, name |-> ""]
    [] part = "*1-2:parts" -> [kind |-> "wildcard", countSpec |-> <<1, 2>>, name |-> "parts"]
    [] part = "*1:w" -> [kind |-> "wildcard", countSpec |-> <<1>>, name |-> "w"]
    [] part = "*2:w" -> [kind |-> "wildcard", countSpec |-> <<2>>, name |-> "w"]
    [] part = "*2" -> [kind |-> "nomatch"]
    [] OTHER -> [kind |-> "literal"]

\* lines 653-661: countSpec.includes('-') ? both numbers : 0 and the number
MinCount(countSpec) == IF Len(countSpec) = 2 THEN countSpec[1] ELSE 0
MaxCount(countSpec) == IF Len(countSpec) = 2 THEN countSpec[2] ELSE countSpec[1]

\* a.slice(from), a.slice(from, to): zero-based, clamped to the array
Slice(a, from) == SubSeq(a, from + 1, Len(a))
SliceTo(a, from, to) == SubSeq(a, from + 1, IF to < Len(a) THEN to ELSE Len(a))

\* params and segmentsMap: an object is the set of its <<name, value>>
\* entries.  Put is obj[name] = value; Merge is {...a, ...b}.
NoEntries == {}
Put(obj, name, value) == {e \in obj : e[1] # name} \cup {<<name, value>>}
Merge(a, b) == {e \in a : \A f \in b : f[1] # e[1]} \cup b
Has(obj, name) == \E e \in obj : e[1] = name
ValueOf(obj, name) == (CHOOSE e \in obj : e[1] = name)[2]

SubFailure == [success |-> FALSE]
SubSuccess(params, segmentsMap, jIncrement) ==
  [success |-> TRUE, params |-> params, segments |-> segmentsMap,
   jIncrement |-> jIncrement]

Least(S) == CHOOSE n \in S : \A m \in S : n <= m

\* _matchRemaining(patternParts, pathSegments), lines 700-806, from the
\* state (i, j, params, segmentsMap) of its loop on; i and j count from 0
\* as in the code.
RECURSIVE MatchRemainingFrom(_, _, _, _, _, _)
MatchRemainingFrom(patternParts, pathSegments, i, j, params, segmentsMap) ==
  IF i >= Len(patternParts)
  THEN \* lines 802-805
       IF j = Len(pathSegments) THEN SubSuccess(params, segmentsMap, 0) ELSE SubFailure
  ELSE
    LET part == patternParts[i + 1]
        syn == Syntax(part)
    IN CASE syn.kind = "literal" ->            \* lines 710-717
              IF j < Len(pathSegments) /\ pathSegments[j + 1] = part
              THEN MatchRemainingFrom(patternParts, pathSegments, i + 1, j + 1, params, segmentsMap)
              ELSE SubFailure
         [] syn.kind = "param" ->              \* lines 719-736
              IF j >= Len(pathSegments) THEN SubFailure
              ELSE IF pathSegments[j + 1] \in syn.forbidden THEN SubFailure
              ELSE MatchRemainingFrom(patternParts, pathSegments, i + 1, j + 1,
                                      Put(params, syn.name, pathSegments[j + 1]), segmentsMap)
         [] syn.kind = "star" ->               \* lines 740-746, then 802-803
              SubSuccess(params, segmentsMap, 0)
         [] syn.kind = "nomatch" ->            \* lines 748-750
              SubFailure
         [] syn.countSpec = << >> ->           \* lines 754-766
              LET remaining == Slice(pathSegments, j)
              IN SubSuccess(params,
                            IF syn.name # "" THEN Put(segmentsMap, syn.name, remaining)
                            ELSE segmentsMap,
                            Len(remaining))
         [] OTHER ->                           \* lines 768-798
              LET subPattern == Slice(patternParts, i + 1)
                  Sub(count) ==
                    MatchRemainingFrom(subPattern, Slice(pathSegments, j + count),
                                       0, 0, NoEntries, NoEntries)
                  counts == {c \in MinCount(syn.countSpec)..MaxCount(syn.countSpec) :
                               Sub(c).success}
              IN IF counts = {} THEN SubFailure
                 ELSE LET count == Least(counts)
                          submatch == Sub(count)
                          consumed == SliceTo(pathSegments, j, j + count)
                          named == IF syn.name # "" THEN Put(segmentsMap, syn.name, consumed)
                                   ELSE segmentsMap
                      IN SubSuccess(Merge(params, submatch.params),
                                    Merge(named, submatch.segments),
                                    count + submatch.jIncrement)

_matchRemaining(patternParts, pathSegments) ==
  MatchRemainingFrom(patternParts, pathSegments, 0, 0, NoEntries, NoEntries)

\* The loop of matchRoute over the parts of one candidate, lines 579-691,
\* from the state (i, j, params, segmentsMap) on: what it leaves in
\* matchFailed, j, params and segmentsMap.
LoopEnd(matchFailed, j, params, segmentsMap) ==
  [matchFailed |-> matchFailed, j |-> j, params |-> params, segmentsMap |-> segmentsMap]

RECURSIVE MatchLoopFrom(_, _, _, _, _, _)
MatchLoopFrom(patternParts, pathSegments, i, j, params, segmentsMap) ==
  IF i >= Len(patternParts) THEN LoopEnd(FALSE, j, params, segmentsMap)
  ELSE
    LET part == patternParts[i + 1]
        syn == Syntax(part)
    IN CASE syn.kind = "literal" ->            \* lines 589-597
              IF j < Len(pathSegments) /\ pathSegments[j + 1] = part
              THEN MatchLoopFrom(patternParts, pathSegments, i + 1, j + 1, params, segmentsMap)
              ELSE LoopEnd(TRUE, j, params, segmentsMap)
         [] syn.kind = "param" ->              \* lines 600-619
              IF j >= Len(pathSegments) THEN LoopEnd(TRUE, j, params, segmentsMap)
              ELSE IF pathSegments[j + 1] \in syn.forbidden
              THEN LoopEnd(TRUE, j, params, segmentsMap)
              ELSE MatchLoopFrom(patternParts, pathSegments, i + 1, j + 1,
                                 Put(params, syn.name, pathSegments[j + 1]), segmentsMap)
         [] syn.kind = "star" ->               \* lines 624-630
              LoopEnd(FALSE, Len(pathSegments), params, segmentsMap)
         [] syn.kind = "nomatch" ->            \* lines 632-635
              LoopEnd(TRUE, j, params, segmentsMap)
         [] syn.countSpec = << >> ->           \* lines 641-650
              LoopEnd(FALSE, Len(pathSegments), params,
                      IF syn.name # "" THEN Put(segmentsMap, syn.name, Slice(pathSegments, j))
                      ELSE segmentsMap)
         [] OTHER ->                           \* lines 652-689
              LET remainingPattern == Slice(patternParts, i + 1)
                  Sub(count) == _matchRemaining(remainingPattern, Slice(pathSegments, j + count))
                  counts == {c \in MinCount(syn.countSpec)..MaxCount(syn.countSpec) :
                               Sub(c).success}
              IN IF counts = {} THEN LoopEnd(TRUE, j, params, segmentsMap)
                 ELSE LET count == Least(counts)
                          submatch == Sub(count)
                          consumed == SliceTo(pathSegments, j, j + count)
                          named == IF syn.name # "" THEN Put(segmentsMap, syn.name, consumed)
                                   ELSE segmentsMap
                      IN LoopEnd(FALSE, j + count + submatch.jIncrement,
                                 Merge(params, submatch.params),
                                 Merge(named, submatch.segments))

\* matchRoute returns null
NoMatch == [null |-> TRUE]

\* The object matchRoute returns for a candidate, lines 574 and 694: the
\* candidate's handler and middlewares, not its options.
MatchOf(route, params, segmentsMap) ==
  [handler |-> route.handler, params |-> params, segments |-> segmentsMap,
   wildcards |-> << >>, middlewares |-> route.middlewares]

\* The body of the loop over the candidates, lines 573-695, for one of them.
MatchCandidate(route, pathname) ==
  IF route.path = pathname \/ route.path = <<"*">>
  THEN MatchOf(route, NoEntries, NoEntries)
  ELSE LET pathSegments == Split(pathname)
           end == MatchLoopFrom(Split(route.path), pathSegments, 0, 0, NoEntries, NoEntries)
       IN IF ~end.matchFailed /\ end.j = Len(pathSegments)
          THEN MatchOf(route, end.params, end.segmentsMap)
          ELSE NoMatch

\* this.routes.get(method) || [], line 569
Candidates(table, method) == IF method \in DOMAIN table THEN table[method] ELSE << >>

\* matchRoute(method, pathname) on the route table `table`, lines 569-698.
RECURSIVE FirstMatch(_, _)
FirstMatch(candidates, pathname) ==
  IF candidates = << >> THEN NoMatch
  ELSE LET m == MatchCandidate(Head(candidates), pathname)
       IN IF m # NoMatch THEN m ELSE FirstMatch(Tail(candidates), pathname)

matchRoute(table, method, pathname) == FirstMatch(Candidates(table, method), pathname)

\* ---------------------------------------------------------- the route table
\* method.toLowerCase(), lines 407 and 972
ToLowerCase(method) ==
  CASE method = "GET" -> "get"
    [] method = "POST" -> "post"
    [] method = "OPTIONS" -> "options"
    [] OTHER -> method

\* new Map(), line 211
NoRoutes == [m \in {} |-> << >>]

NoProbe == [called |-> FALSE]

\* The predicate argument of _registerRoute: a handler function, an array
\* of middlewares, or an options object.
IsFunction(h) == [is |-> "function", fn |-> h]
IsArray(items) == [is |-> "array", items |-> items]
IsObject(options) == [is |-> "object", options |-> options]

\* options = {} of line 977
NoOptions == [validate |-> {}]

\* The registration that creates the list of the method before it looks at
\* the path.
RegisteredListFirst(table, method, path, predicate, maybeHandler) ==
  LET m == ToLowerCase(method)
      route ==
        CASE predicate.is = "array" ->
               [path |-> path, handler |-> maybeHandler,
                middlewares |-> predicate.items, options |-> NoOptions, method |-> m]
          [] predicate.is = "object" ->
               [path |-> path, handler |-> maybeHandler,
                middlewares |-> << >>, options |-> predicate.options, method |-> m]
          [] OTHER ->
               [path |-> path, handler |-> predicate.fn,
                middlewares |-> << >>, options |-> NoOptions, method |-> m]
  IN [k \in DOMAIN table \cup {m} |->
        IF k = m /\ StartsWithSlash(path) THEN Append(Candidates(table, m), route)
        ELSE Candidates(table, k)]

\* _registerRoute(method, path, predicate, maybeHandler) on the route table
\* `table`, lines 968-995: the table it leaves.  A path that does not start
\* with '/' raises the TypeError of line 970 before anything is stored.
Registered(table, method, path, predicate, maybeHandler) ==
  IF ~StartsWithSlash(path) THEN table
  ELSE
    LET m == ToLowerCase(method)
        route ==
          CASE predicate.is = "array" ->
                 [path |-> path, handler |-> maybeHandler,
                  middlewares |-> predicate.items, options |-> NoOptions, method |-> m]
            [] predicate.is = "object" ->
                 [path |-> path, handler |-> maybeHandler,
                  middlewares |-> << >>, options |-> predicate.options, method |-> m]
            [] OTHER ->
                 [path |-> path, handler |-> predicate.fn,
                  middlewares |-> << >>, options |-> NoOptions, method |-> m]
    IN [k \in DOMAIN table \cup {m} |-> IF k = m THEN Append(Candidates(table, m), route)
                                        ELSE table[k]]

\* The number of routes a table holds.
RECURSIVE SumLen(_, _)
SumLen(table, ms) ==
  IF ms = {} THEN 0
  ELSE LET m == CHOOSE x \in ms : TRUE
       IN Len(table[m]) + SumLen(table, ms \ {m})

Size(table) == SumLen(table, DOMAIN table)

\* The function given as handler to the next registration: one that no
\* route holds yet.
NewHandler == Size(routes) + Size(subRoutes) + 1

\* get(path, handler), post(path, handler), methods([method], path,
\* handler), lines 858-924, on the dispatcher.
Register(method, path) ==
  /\ Size(routes) < MaxRoutes
  /\ routes' = Registered(routes, method, path, IsFunction(NewHandler), NewHandler)
  /\ probe' = NoProbe
  /\ UNCHANGED <<subRoutes, mountLog, globalMws, errorHandler, rq, securityHeaders,
                 resolverVars, composeVars, builderVars, limiterVars>>

\* matchRoute(method, pathname) on the dispatcher, lines 558-699.  It reads
\* the table and changes nothing, so one call per table is looked at.
MatchRoute(method, pathname) ==
  /\ ~probe.called
  /\ probe' = [called |-> TRUE, method |-> method, pathname |-> pathname,
               match |-> matchRoute(routes, method, pathname)]
  /\ UNCHANGED <<routes, subRoutes, mountLog, globalMws, errorHandler, rq, securityHeaders,
                 resolverVars, composeVars, builderVars, limiterVars>>

\* The route paths and the pathnames given as inputs.
Patterns ==
  { Str(<< >>), Str(<<"f">>), Str(<<"f", "end">>),
    Str(<<"f", ":id">>), Str(<<"f", ":id!a">>),
    Str(<<"f", "*">>), Str(<<"f", "*:rest">>),
    Str(<<"f", "*1-2:parts", "end">>), Str(<<"f", "*1-2:parts">>),
    Str(<<"*1:w", ":id">>), Str(<<"*1-2:parts", "*">>), Str(<<"f", "*2">>),
    <<"f">> }

PathSegments == {"f", "a", "end", ":id"}

RECURSIVE SeqsUpTo(_, _)
SeqsUpTo(S, n) ==
  IF n = 0 THEN {<< >>}
  ELSE LET shorter == SeqsUpTo(S, n - 1)
       IN shorter \cup {Append(s, x) : s \in {t \in shorter : Len(t) = n - 1}, x \in S}

Pathnames == {Str(segs) : segs \in SeqsUpTo(PathSegments, MaxPathLen)}

\* this._errorHandler = null, line 209; no request given to respond yet.
NoErrorHandler == [is |-> "null"]
NoRequest == [phase |-> "none"]

InitDispatcher ==
  /\ routes = NoRoutes
  /\ subRoutes = NoRoutes
  /\ mountLog = << >>
  /\ probe = NoProbe
  /\ globalMws = << >>
  /\ errorHandler = NoErrorHandler
  /\ rq = NoRequest
  /\ securityHeaders = NoEntries

NextMatch ==
  \/ \E method \in {"get", "POST"}, path \in Patterns : Register(method, path)
  \/ \E method \in {"get", "post"}, pathname \in Pathnames : MatchRoute(method, pathname)

\* ------------------------------------------------------------------- mount
\* A mount that leaves the paths of the subrouter as they are.
FullPathUnprefixed(prefix, path) == path

\* lines 299-307: the path a route of the subrouter gets in the parent.
FullPath(prefix, path) ==
  IF path = << Slash >> THEN prefix
  ELSE IF EndsWithSlash(prefix) /\ StartsWithSlash(path) THEN prefix \o Tail(path)
  ELSE IF ~EndsWithSlash(prefix) /\ ~StartsWithSlash(path) THEN prefix \o << Slash >> \o path
  ELSE prefix \o path

\* lines 295-311: the copies of the routes of one method.
UpdatedRoutes(prefix, rs) ==
  [k \in DOMAIN rs |-> [rs[k] EXCEPT !.path = FullPath(prefix, rs[k].path)]]

\* Mutant of SubAfterMount: line 311 assigning route.path = fullPath
\* instead of cloning the route.
SubRewritten(prefix, table) == [m \in DOMAIN table |-> UpdatedRoutes(prefix, table[m])]

\* The table of the subrouter after mount: lines 293-311 read
\* subrouter.routes and its routes, and `{ ...route, path: fullPath }` is
\* a new object for every route.
SubAfterMount(prefix, table) == table

\* mount(prefix, subrouter) with subrouter a RouteDispatcher, lines 283-317.
Mount(prefix) ==
  /\ Len(mountLog) < MaxMounts
  /\ routes' = [m \in DOMAIN routes \cup DOMAIN subRoutes |->
                  IF m \in DOMAIN subRoutes
                  THEN Candidates(routes, m) \o UpdatedRoutes(prefix, subRoutes[m])
                  ELSE routes[m]]
  /\ subRoutes' = SubAfterMount(prefix, subRoutes)
  /\ mountLog' = Append(mountLog, [prefix |-> prefix, before |-> routes, sub |-> subRoutes])
  /\ probe' = NoProbe
  /\ UNCHANGED <<globalMws, errorHandler, rq, securityHeaders,
                 resolverVars, composeVars, builderVars, limiterVars>>

\* get(path, handler), post(path, handler) on the subrouter, before it is
\* mounted.
RegisterSub(method, path) ==
  /\ mountLog = << >>
  /\ Size(subRoutes) < MaxSubRoutes
  /\ subRoutes' = Registered(subRoutes, method, path, IsFunction(NewHandler), NewHandler)
  /\ UNCHANGED <<routes, mountLog, probe, globalMws, errorHandler, rq, securityHeaders,
                 resolverVars, composeVars, builderVars, limiterVars>>

\* The inputs of the mount scenarios.
Prefixes == { <<Slash, "api">>, <<Slash, "api", Slash>>, <<Slash>> }

ParentPatterns == { Str(<<"api", "*">>), Str(<<"f">>) }

SubPatterns == { Str(<< >>), Str(<<"f">>), Str(<<":id">>) }

\* The pathnames the subrouter is asked for, and the prefix before them.
SubPathnames == {Str(segs) : segs \in SeqsUpTo({"f", "a"}, MaxPathLen - 2)}

\* prefix and pathname joined with one slash
JoinOne(prefix, pathname) ==
  (IF EndsWithSlash(prefix) THEN SubSeq(prefix, 1, Len(prefix) - 1) ELSE prefix) \o pathname

MountPathnames == {JoinOne(prefix, p) : prefix \in Prefixes, p \in SubPathnames}

NextMount ==
  \/ \E path \in ParentPatterns : Register("get", path)
  \/ \E path \in SubPatterns : RegisterSub("GET", path)
  \/ \E prefix \in Prefixes : Mount(prefix)
  \/ \E pathname \in MountPathnames : MatchRoute("get", pathname)

\* ----------------------------------------------------------------- respond
\* Who a stage of the pipeline is: the k-th middleware given to use
\* (grp "global"), the k-th middleware of the array given with route `of`
\* (grp "route"), or the handler of route `of` (grp "handler").
Tag(grp, of, pos) == [grp |-> grp, of |-> of, pos |-> pos]

\* A middleware that calls next once and returns what it yielded, and a
\* handler that returns a value of its own.  Either may throw instead
\* (StageRaise).
Middleware(id) == [calls |-> 1, propagate |-> TRUE, catches |-> FALSE, id |-> id]
Handler(id) == [calls |-> 0, propagate |-> FALSE, catches |-> FALSE, id |-> id]

\* The argument of use: a function, or an object with handler().
WithHandler(h) == [is |-> "object", handler |-> h]
NotMiddleware == [is |-> "invalid"]

\* use(middleware), lines 525-540; anything else raises the error of line
\* 531 and leaves the list as it is.
Use(middleware) ==
  /\ rq.phase = "none"
  /\ Len(globalMws) < MaxGlobal
  /\ globalMws' = CASE middleware.is = "function" -> Append(globalMws, middleware.fn)
                    [] middleware.is = "object" -> Append(globalMws, middleware.handler)
                    [] OTHER -> globalMws
  /\ UNCHANGED <<routes, subRoutes, mountLog, probe, errorHandler, rq, securityHeaders,
                 resolverVars, composeVars, builderVars, limiterVars>>

\* Values that travel through respond.
Null == [type |-> "null"]
Undefined == [type |-> "undefined"]
Response(status, body, headers) ==
  [type |-> "Response", status |-> status, body |-> body, headers |-> headers]
Resolved(v) == [settled |-> "resolved", value |-> v]
Rejected(e) == [settled |-> "rejected", error |-> e]
Promise(settles) == [type |-> "Promise", settles |-> settles]

\* What is thrown in the pipeline: an Error without status, an Error made
\* with a status, or `throw undefined`.  status 0 stands for no status.
Thrown ==
  { [is |-> "Error", status |-> 0], [is |-> "Error", status |-> 403],
    [is |-> "undefined", status |-> 0] }

\* this._errorHandler: null (line 209), or the function given to onError,
\* which returns a value or throws.
Returns(v) == [is |-> "function", throws |-> FALSE, value |-> v]
Throws == [is |-> "function", throws |-> TRUE, value |-> Undefined]

HandledResponse == Response(418, "handled", NoEntries)

ErrorHandlers ==
  { Returns(HandledResponse), Returns(Undefined), Throws,
    Returns(Promise(Resolved(HandledResponse))),
    Returns(Promise(Resolved(Undefined))),
    Returns(Promise(Rejected([is |-> "Error", status |-> 0]))) }

\* onError(fn), lines 546-549.
OnError(fn) ==
  /\ rq.phase = "none"
  /\ errorHandler = NoErrorHandler
  /\ errorHandler' = fn
  /\ UNCHANGED <<routes, subRoutes, mountLog, probe, globalMws, rq, securityHeaders,
                 resolverVars, composeVars, builderVars, limiterVars>>

\* The routes are given with one of the three forms of lines 978-989:
\* (path, handler), (path, [middlewares], handler), (path, options, handler).
RouteMiddlewares(of, n) == [k \in 1..n |-> Middleware(Tag("route", of, k))]

Predicates(of) ==
  {IsFunction(Handler(Tag("handler", of, 0)))}
  \cup {IsArray(RouteMiddlewares(of, n)) : n \in 1..MaxRouteMw}
  \cup {IsObject([validate |-> {part}]) : part \in {"body", "query"}}

RegisterRoute(method, path, predicate) ==
  /\ rq.phase = "none"
  /\ Size(routes) < MaxServedRoutes
  /\ routes' = Registered(routes, method, path, predicate, Handler(Tag("handler", NewHandler, 0)))
  /\ UNCHANGED <<subRoutes, mountLog, probe, globalMws, errorHandler, rq, securityHeaders,
                 resolverVars, composeVars, builderVars, limiterVars>>

\* line 408: the pathname without its trailing slash, "/" excepted.
Pathname(path) ==
  IF EndsWithSlash(path) /\ path # << Slash >> THEN SubSeq(path, 1, Len(path) - 1) ELSE path

\* lines 411-412: new ResponseBuilder().setStatus(204).enableCORS().end()
CorsHeaders ==
  { <<"Access-Control-Allow-Origin", "*">>,
    <<"Access-Control-Allow-Methods", "GET,POST,PUT,PATCH,DELETE,OPTIONS">>,
    <<"Access-Control-Allow-Headers", "Content-Type">> }

Json == { <<"Content-Type", "application/json">> }

Passed == [type |-> "passed"]

\* lines 435-457: the 400 response of a validator that fails, or Passed.
\* match is what matchRoute returned.
Validation(match, request) ==
  IF "options" \in DOMAIN match /\ match.options.validate # {}
  THEN IF "body" \in match.options.validate /\ request.input = "badBody"
       THEN Response(400, "{error: Invalid request body, issues}", Json)
       ELSE IF "query" \in match.options.validate /\ request.input = "badQuery"
       THEN Response(400, "{error: Invalid query parameters, issues}", Json)
       ELSE Passed
  ELSE Passed

\* A pipeline composed the other way round.
RouteFirst(globals, routeMiddlewares) == routeMiddlewares \o globals

\* line 460: [...this.middlewares, ...routeMiddlewares]
AllMiddlewares(globals, routeMiddlewares) == globals \o routeMiddlewares

Settled(request, match, outcome) ==
  [phase |-> "settled", request |-> request, match |-> match, via |-> "direct",
   thrown |-> Undefined, result |-> Undefined, res |-> Undefined, outcome |-> outcome]

\* A lookup that fails answered with an empty response.
NotFoundAsEmpty(method, pathname) == Response(204, "null", NoEntries)

\* line 417: new Response(`Not found: ${method.toUpperCase()} ${pathname}`,
\* { status: 404 })
NotFound(method, pathname) == Response(404, "Not found", NoEntries)

\* A dispatcher without the special case of OPTIONS.
NeverPreflight(request) == FALSE

\* line 410: request.method === 'OPTIONS'
IsPreflight(request) == request.method = "OPTIONS"

\* respond from line 415 on, up to the call of the composed pipeline of
\* line 465; match is what matchRoute returned.
Serve(request, match) ==
  IF match = NoMatch
  THEN /\ rq' = Settled(request, match, Resolved(NotFound(request.method, Pathname(request.path))))
       /\ UNCHANGED composeVars
  ELSE IF ~request.isRequest
  THEN /\ rq' = Settled(request, match, Rejected([is |-> "Error", status |-> 500]))
       /\ UNCHANGED composeVars
  ELSE IF Validation(match, request) # Passed
  THEN /\ rq' = Settled(request, match, Resolved(Validation(match, request)))
       /\ UNCHANGED composeVars
  ELSE /\ rq' = [phase |-> "pipeline", request |-> request, match |-> match,
                 via |-> "pipeline", thrown |-> Undefined, result |-> Undefined,
                 res |-> Undefined, outcome |-> Undefined]
       /\ middlewares' = AllMiddlewares(globalMws, match.middlewares)
       /\ finalHandler' = match.handler
       /\ runs' = [runs EXCEPT !["r1"] =
            [status |-> "running", index |-> 0, stack |-> << Frame(0) >>,
             result |-> Undef, started |-> << 0 >>,
             log |-> [i \in 0..(Len(globalMws) + Len(match.middlewares)) |-> << >>]]]

\* respond(request, env, ctx) up to the call of the composed pipeline,
\* lines 395-465, for a request that is an object with url and method.
Respond(request) ==
  /\ rq.phase = "none"
  /\ IF IsPreflight(request)
     THEN /\ rq' = Settled(request, NoMatch, Resolved(Response(204, "null", CorsHeaders)))
          /\ UNCHANGED composeVars
     ELSE Serve(request, matchRoute(routes, ToLowerCase(request.method), Pathname(request.path)))
  /\ UNCHANGED <<routes, subRoutes, mountLog, probe, globalMws, errorHandler,
                 securityHeaders, resolverVars, builderVars, limiterVars>>

\* The running stage throws e.
StageRaise(r, e) ==
  LET run == runs[r]
      top == Len(run.stack)
  IN /\ rq.phase = "pipeline"
     /\ run.status = "running"
     /\ ~run.stack[top].err
     /\ runs' = [runs EXCEPT ![r].stack[top].err = TRUE]
     /\ rq' = [rq EXCEPT !.thrown = e]
     /\ UNCHANGED <<middlewares, finalHandler, routes, subRoutes, mountLog, probe, globalMws,
                    errorHandler, securityHeaders, resolverVars, builderVars, limiterVars>>

\* What the pipeline may resolve to, and what the request's ResponseBuilder
\* res holds then: untouched, ended with end() so that rawResponse is set,
\* or ended by redirect() (line 236 of the builder) with rawResponse null.
OwnResponse == Response(201, "payload", { <<"X-Own", "1">> })
BuiltResponse == Response(200, "built", { <<"Content-Type", "text/plain; charset=utf-8">> })

Results ==
  { OwnResponse, [type |-> "ResponseBuilder", built |-> BuiltResponse],
    [type |-> "Object"], [type |-> "Error"], Undefined }

RedirectResponse == Response(302, "null", { <<"Location", "/login">> })

\* redirect says whether redirect() was called on res: it sets _ended and
\* leaves rawResponse as it is; a later end() sets rawResponse to the
\* redirect response (lines 401-408 of the builder).
Builders ==
  { [ended |-> FALSE, rawResponse |-> Null, redirect |-> FALSE],
    [ended |-> TRUE, rawResponse |-> BuiltResponse, redirect |-> FALSE],
    [ended |-> TRUE, rawResponse |-> Null, redirect |-> TRUE],
    [ended |-> TRUE, rawResponse |-> RedirectResponse, redirect |-> TRUE] }

\* finalResponse of lines 467-479, Null when it is left undefined or null.
FinalResponse(result, res) ==
  CASE result.type = "Response" -> Response(result.status, result.body, NoEntries)
    [] result.type = "ResponseBuilder" -> result.built
    [] res.ended -> res.rawResponse
    [] result.type = "Error" -> Response(500, "{}", NoEntries)
    [] OTHER -> Null

\* The callback of then, lines 466-493.
Then(result, res, headers) ==
  LET finalResponse == FinalResponse(result, res)
  IN IF result.type \notin {"Response", "ResponseBuilder"} /\ ~res.ended /\ result.type = "Object"
     THEN Response(200, "json", NoEntries)
     ELSE IF finalResponse = Null THEN Response(204, "null", NoEntries)
     ELSE Response(finalResponse.status, finalResponse.body, Merge(finalResponse.headers, headers))

\* The pipeline resolved: lines 466-493.  The value it resolved to is the
\* one the stages handed back; what kind of value it is and what was done
\* to res are inputs.
RespondThen(result, res) ==
  /\ rq.phase = "pipeline"
  /\ runs["r1"].status = "done"
  /\ runs["r1"].result = Undef => result = Undefined
  /\ rq' = [rq EXCEPT !.phase = "settled", !.via = "then",
                      !.result = result, !.res = res,
                      !.outcome = Resolved(Then(result, res, securityHeaders))]
  /\ UNCHANGED <<routes, subRoutes, mountLog, probe, globalMws, errorHandler, securityHeaders,
                 resolverVars, composeVars, builderVars, limiterVars>>

\* lines 505-516; reading err.message of undefined raises a TypeError
\* inside the callback, which rejects the promise respond returned.
Canonical(err) ==
  IF err.is = "undefined" THEN Rejected([is |-> "TypeError", status |-> 0])
  ELSE Resolved(Response(IF err.status # 0 THEN err.status ELSE 500, "error", Json))

\* The callback of catch, lines 494-517: what the promise of respond
\* settles with.
Caught(handler, err) ==
  IF handler.is = "function" /\ ~handler.throws /\ handler.value.type = "Promise"
  THEN handler.value.settles
  ELSE IF handler.is = "function" /\ ~handler.throws /\ handler.value.type = "Response"
  THEN Resolved(handler.value)
  ELSE Canonical(err)

\* The pipeline rejected: lines 494-517.
RespondCatch ==
  /\ rq.phase = "pipeline"
  /\ runs["r1"].status = "failed"
  /\ rq' = [rq EXCEPT !.phase = "settled", !.via = "catch",
                      !.outcome = Caught(errorHandler, rq.thrown)]
  /\ UNCHANGED <<routes, subRoutes, mountLog, probe, globalMws, errorHandler, securityHeaders,
                 resolverVars, composeVars, builderVars, limiterVars>>

\* The inputs of the respond scenarios.
Requests ==
  [isRequest : BOOLEAN, method : {"GET", "OPTIONS"},
   path : { Str(<<"f">>), Str(<<"f">>) \o << Slash >>, Str(<<"a">>) },
   input : {"ok", "badBody", "badQuery"}]

\* What use is given: the next middleware as a function or as an object
\* with handler(), or something that is neither.
UseArguments ==
  LET h == Middleware(Tag("global", 0, Len(globalMws) + 1))
  IN {IsFunction(h), WithHandler(h), NotMiddleware}

NextRespond ==
  \/ \E middleware \in UseArguments : Use(middleware)
  \/ \E fn \in ErrorHandlers : OnError(fn)
  \/ \E predicate \in Predicates(NewHandler) : RegisterRoute("GET", Str(<<"f">>), predicate)
  \/ \E request \in Requests : Respond(request)
  \/ CallNext("r1")
  \/ StageReturn("r1")
  \/ StageThrow("r1")
  \/ \E e \in Thrown : StageRaise("r1", e)
  \/ \E result \in Results, res \in Builders : RespondThen(result, res)
  \/ RespondCatch

\* ------------------------------------------- respond: headers, all, OPTIONS
\* The argument of setSecurityHeaders: an object of headers, or nothing.
Headers(entries) == [is |-> "object", entries |-> entries]
NoHeaders == [is |-> "undefined", entries |-> NoEntries]

\* setSecurityHeaders(headers), lines 324-327: headers || {}
SetSecurityHeaders(headers) ==
  /\ rq.phase = "none"
  /\ securityHeaders' = IF headers.is = "object" THEN headers.entries ELSE NoEntries
  /\ UNCHANGED <<routes, subRoutes, mountLog, probe, globalMws, errorHandler, rq,
                 resolverVars, composeVars, builderVars, limiterVars>>

\* line 953
AllMethods == <<"get", "post", "put", "patch", "delete", "options", "head">>

\* lines 954-956 and 847-849: _registerRoute for each method in turn.
RECURSIVE RegisteredEach(_, _, _, _, _)
RegisteredEach(table, methodNames, path, predicate, maybeHandler) ==
  IF methodNames = << >> THEN table
  ELSE RegisteredEach(Registered(table, Head(methodNames), path, predicate, maybeHandler),
                      Tail(methodNames), path, predicate, maybeHandler)

\* all(path, handler), lines 952-958.
All(path) ==
  /\ rq.phase = "none"
  /\ Size(routes) < MaxServedRoutes
  /\ routes' = RegisteredEach(routes, AllMethods, path,
                              IsFunction(Handler(Tag("handler", NewHandler, 0))),
                              Handler(Tag("handler", NewHandler, 0)))
  /\ UNCHANGED <<subRoutes, mountLog, probe, globalMws, errorHandler, rq, securityHeaders,
                 resolverVars, composeVars, builderVars, limiterVars>>

\* The inputs of the scenarios on headers, OPTIONS and 404.
SecurityHeaders ==
  { Headers({ <<"X-Frame-Options", "DENY">> }),
    Headers({ <<"Content-Type", "text/html">> }),
    NoHeaders }

ServedRequests ==
  [isRequest : BOOLEAN, method : {"GET", "OPTIONS"},
   path : { Str(<<"f">>), Str(<<"a">>) }, input : {"ok"}]

NextServe ==
  \/ \E middleware \in UseArguments : Use(middleware)
  \/ OnError(Returns(HandledResponse))
  \/ RegisterRoute("GET", Str(<<"f">>), IsFunction(Handler(Tag("handler", NewHandler, 0))))
  \/ All(Str(<<"f">>))
  \/ \E headers \in SecurityHeaders : SetSecurityHeaders(headers)
  \/ \E request \in ServedRequests : Respond(request)
  \/ CallNext("r1")
  \/ StageReturn("r1")
  \/ StageThrow("r1")
  \/ StageRaise("r1", [is |-> "Error", status |-> 403])
  \/ \E result \in Results, res \in Builders : RespondThen(result, res)
  \/ RespondCatch

\* ------------------------------------------------- registration, observed
\* get, post or put(path, handler), lines 876-909, or methods([method],
\* path, handler), lines 858-863, with the call kept in probe: its
\* arguments, the table before it, and whether _registerRoute threw the
\* TypeError of line 970.
RegisterObserved(method, path) ==
  /\ Size(routes) < MaxRoutes
  /\ routes' = Registered(routes, method, path, IsFunction(NewHandler), NewHandler)
  /\ probe' = [called |-> FALSE, method |-> method, path |-> path, before |-> routes,
               threw |-> ~StartsWithSlash(path)]
  /\ UNCHANGED <<subRoutes, mountLog, globalMws, errorHandler, rq, securityHeaders,
                 resolverVars, composeVars, builderVars, limiterVars>>

\* The paths given: three that start with a slash, "f" and the empty string.
RegisteredPaths == { Str(<<"f">>), Str(<<"f", ":id">>), Str(<<"*">>), <<"f">>, << >> }

NextRegister ==
  \E method \in {"get", "GET", "POST", "PUT"}, path \in RegisteredPaths :
    RegisterObserved(method, path)

\* ------------------------------------------------ two invocations at once
\* Two requests served by one composed pipeline.
TwoRuns == {"r1", "r2"}

\* Stages that return a value of their own: one that does not call next,
\* one that calls it once, and those that call it again, catching the
\* error of line 836 or leaving with it.
InterleavedBehaviours ==
  {b \in Behaviours : ~b.propagate /\ (b.calls = 1 => ~b.catches)}

InitInterleaved ==
  /\ \E n \in 0..MaxMw : middlewares \in [1..n -> InterleavedBehaviours]
  /\ finalHandler \in InterleavedBehaviours
  /\ runs = [r \in TwoRuns |-> IdleRun]

\* Every await of lines 840 and 842 is a point where the other invocation
\* may go on.
NextInterleaved ==
  \/ \E r \in TwoRuns : Execute(r)
  \/ \E r \in TwoRuns : CallNext(r)
  \/ \E r \in TwoRuns : StageReturn(r)
  \/ \E r \in TwoRuns : StageThrow(r)

\* ------------------------------------------------------- ResponseBuilder
\* JavaScript values given to the builder as data or body.
String(text) == [type |-> "string", text |-> text]
Object(json) == [type |-> "object", json |-> json]
Bytes == [type |-> "Uint8Array"]
Blob == [type |-> "Blob"]

\* if (body): null, undefined and '' are falsy.
Truthy(v) == v # Null /\ v # Undefined /\ v # String("")

\* The objects the builder and its responses refer to, kept by reference:
\* heap[id] is a Headers, a ReadableStream or a Response.
HeadersObject(entries) == [class |-> "Headers", entries |-> entries]
StreamObject(chunks, closed) == [class |-> "ReadableStream", chunks |-> chunks, closed |-> closed]
ResponseObject(status, body, headers) ==
  [class |-> "Response", status |-> status, body |-> body, headers |-> headers]
StreamBody(id) == [type |-> "ReadableStream", ref |-> id]

\* The builder after its constructor, lines 29-76; headers is the id of
\* its Headers object, stream and rawResponse are 0 while they are null.
NewBuilder ==
  [status |-> 200, headers |-> 1, data |-> Undefined, usingStream |-> FALSE, stream |-> 0,
   ended |-> FALSE, redirect |-> FALSE, redirectLocation |-> "", redirectCode |-> 302,
   corsEnabled |-> FALSE, rawResponse |-> 0]

\* sent: the response the first completed terminal operation returned, its
\* status, headers and body at that moment, and what the terminal
\* operations after it returned.
NothingSent == [R |-> 0, content |-> Null, later |-> << >>]

InitBuilder ==
  /\ builder = NewBuilder
  /\ heap = << HeadersObject(NoEntries) >>
  /\ sent = NothingSent

\* A builder b with the heap h it lives in.
Machine(b, h) == [builder |-> b, heap |-> h]

\* this.headers.set(key, value)
HeadersSet(m, key, value) ==
  [m EXCEPT !.heap[m.builder.headers].entries = Put(@, key, value)]

\* if (!this.headers.has(key)) this.headers.set(key, value)
HeadersDefault(m, key, value) ==
  IF Has(m.heap[m.builder.headers].entries, key) THEN m ELSE HeadersSet(m, key, value)

\* this.rawResponse = new Response(body, {status, headers: this.headers}):
\* the response is given a Headers object of its own, filled from the one
\* passed in.
Construct(m, body, status) ==
  [m EXCEPT !.heap = m.heap \o << HeadersObject(m.heap[m.builder.headers].entries),
                                  ResponseObject(status, body, Len(m.heap) + 1) >>,
            !.builder.rawResponse = Len(m.heap) + 2]

\* What a call returns or throws, with the builder and heap it leaves.
Returned(m) == [m |-> m, threw |-> FALSE, ret |-> m.builder.rawResponse]
Threw(m) == [m |-> m, threw |-> TRUE, ret |-> 0]

\* Mutant of AlreadyEnded: end() without lines 389-391.
NeverEnded(b) == FALSE

\* line 389: this._ended && this.rawResponse
AlreadyEnded(b) == b.ended /\ b.rawResponse # 0

\* lines 394-401, with the defaults of lines 66-73
WithCors(m) ==
  IF m.builder.corsEnabled
  THEN HeadersSet(HeadersSet(HeadersSet(m,
         "Access-Control-Allow-Origin", "*"),
         "Access-Control-Allow-Methods", "GET,POST,PUT,PATCH,DELETE,OPTIONS"),
         "Access-Control-Allow-Headers", "Content-Type")
  ELSE m

\* lines 403-409
WithRedirect(m) ==
  IF m.builder.redirect
  THEN Construct(HeadersSet(m, "Location", m.builder.redirectLocation),
                 Null, m.builder.redirectCode)
  ELSE m

\* writeChunk(chunk) on a stream that exists, lines 276-301: enqueue throws
\* on a closed stream, and a chunk that is neither string nor Uint8Array is
\* refused.
CanWrite(m, chunk) ==
  /\ ~m.heap[m.builder.stream].closed
  /\ chunk.type \in {"string", "Uint8Array"}

Written(m, chunk) == [m EXCEPT !.heap[m.builder.stream].chunks = Append(@, chunk)]

\* lines 446-458: the output and the Content-Type default for data that is
\* an object or a string.
Output(useData) ==
  IF useData.type = "object" THEN useData.json
  ELSE IF useData.type = "null" THEN "null"
  ELSE IF useData.type = "string" THEN useData.text
  ELSE ""

WithContentType(m, useData) ==
  IF useData.type \in {"object", "null"} THEN HeadersDefault(m, "Content-Type", "application/json")
  ELSE IF useData.type = "string"
       THEN HeadersDefault(m, "Content-Type", "text/plain; charset=utf-8")
  ELSE m

\* lines 419-466, from `let output` on.
EndWithData(m, body) ==
  LET useData == IF body # Null THEN body ELSE m.builder.data
  IN IF useData.type = "Blob"
     THEN Returned(Construct(m, useData, m.builder.status))
     ELSE IF useData.type = "Uint8Array"
     THEN Returned(Construct(HeadersSet(m, "Content-Type", "application/octet-stream"),
                             useData, m.builder.status))
     ELSE LET typed == WithContentType(m, useData)
          IN IF typed.builder.rawResponse # 0 THEN Returned(typed)
             ELSE Returned(Construct(typed, String(Output(useData)), typed.builder.status))

\* lines 411-418: the stream is closed and becomes the body.
EndStream(m, body) ==
  IF ~m.builder.usingStream THEN EndWithData(m, body)
  ELSE IF Truthy(body) /\ ~CanWrite(m, body) THEN Threw(m)
  ELSE IF m.heap[m.builder.stream].closed THEN Threw(m)
  ELSE LET w == IF Truthy(body) THEN Written(m, body) ELSE m
           closed == [w EXCEPT !.heap[w.builder.stream].closed = TRUE]
       IN EndWithData(Construct(closed, StreamBody(w.builder.stream), w.builder.status), body)

\* end(body = null), lines 388-467
end(m, body) ==
  IF AlreadyEnded(m.builder) THEN Returned(m)
  ELSE EndStream(WithRedirect(WithCors([m EXCEPT !.builder.ended = TRUE])),
                 IF body = Undefined THEN Null ELSE body)

\* The status, headers and body a response has in heap h.
Content(h, id) ==
  [status |-> h[id].status,
   headers |-> h[h[id].headers].entries,
   body |-> IF h[id].body.type = "ReadableStream" THEN h[h[id].body.ref] ELSE h[id].body]

\* A call on the builder has ended with out; a response it returned is
\* recorded.
CallEnds(out) ==
  /\ builder' = out.m.builder
  /\ heap' = out.m.heap
  /\ sent' = IF out.threw THEN sent
             ELSE IF sent.R = 0
                  THEN [R |-> out.ret, content |-> Content(out.m.heap, out.ret), later |-> << >>]
             ELSE [sent EXCEPT !.later = Append(@, out.ret)]
  /\ UNCHANGED <<resolverVars, composeVars, dispatcherVars, limiterVars>>

\* A call that returns the builder.
Chained(m) ==
  /\ builder' = m.builder
  /\ heap' = m.heap
  /\ UNCHANGED <<sent, resolverVars, composeVars, dispatcherVars, limiterVars>>

Current == Machine(builder, heap)

MayEnd == Len(sent.later) < MaxTerminal

\* setStatus(code), lines 108-111
SetStatus(code) == Chained([Current EXCEPT !.builder.status = code])

\* setHeader(key, value), lines 119-131, with two strings
SetHeader(key, value) == Chained(HeadersSet(Current, key, value))

\* text(data), lines 167-171
Text(data) ==
  Chained([HeadersSet(Current, "Content-Type", "text/plain; charset=utf-8")
             EXCEPT !.builder.data = data])

\* json(data), lines 178-184
JsonData(data) ==
  Chained(HeadersDefault([Current EXCEPT !.builder.data = data],
                         "Content-Type", "application/json"))

\* redirect(location), lines 223-238
Redirect(location) ==
  Chained([Current EXCEPT !.builder.redirect = TRUE,
                          !.builder.redirectLocation = location,
                          !.builder.redirectCode = 302,
                          !.builder.ended = TRUE])

\* enableCORS(), lines 491-498
EnableCORS == Chained([Current EXCEPT !.builder.corsEnabled = TRUE])

\* _ensureStream(), lines 473-482: the stream is created once, and its
\* start callback sets the controller at once.
EnsureStream(m) ==
  IF m.builder.usingStream THEN m
  ELSE [m EXCEPT !.heap = Append(m.heap, StreamObject(<< >>, FALSE)),
                 !.builder.usingStream = TRUE,
                 !.builder.stream = Len(m.heap) + 1]

\* writeChunk(chunk), lines 276-301: a chunk that cannot be written is
\* refused with an error after the stream was ensured.
WriteChunk(chunk) ==
  /\ builder.usingStream => Len(heap[builder.stream].chunks) < MaxChunks
  /\ LET m == EnsureStream(Current)
     IN Chained(IF CanWrite(m, chunk) THEN Written(m, chunk) ELSE m)

\* end(body), lines 388-467
End(body) == MayEnd /\ CallEnds(end(Current, body))

\* sendText(text), lines 191-195
SendText(text) ==
  /\ MayEnd
  /\ CallEnds(end(HeadersSet(Current, "Content-Type", "text/plain; charset=utf-8"), text))

\* sendJSON(data), lines 202-205
SendJSON(data) ==
  /\ MayEnd
  /\ CallEnds(end(HeadersSet(Current, "Content-Type", "application/json"), data))

\* sendHTML(html), lines 212-215, html a string
SendHTML(html) ==
  /\ MayEnd
  /\ CallEnds(end(HeadersSet(Current, "Content-Type", "text/html; charset=utf-8"), html))

\* setBody(body), lines 256-258
SetBody(body) == MayEnd /\ CallEnds(end(Current, body))

\* stream(body, contentType), lines 266-269
Stream(body, contentType) ==
  /\ MayEnd
  /\ CallEnds(end(HeadersSet(Current, "Content-Type", contentType), body))

Texts == { String("hi"), String("") }
Bodies == { Undefined, String("hi"), Object("{}"), Bytes, Blob }

NextBuilder ==
  \/ SetStatus(404)
  \/ SetHeader("X-A", "1")
  \/ Text(String("t"))
  \/ JsonData(Object("{}"))
  \/ Redirect("/login")
  \/ EnableCORS
  \/ \E chunk \in { String("c"), Object("{}") } : WriteChunk(chunk)
  \/ \E body \in Bodies : End(body)
  \/ \E text \in Texts : SendText(text)
  \/ SendJSON(Object("{}"))
  \/ SendHTML(String("<p>"))
  \/ \E body \in Bodies : SetBody(body)
  \/ \E body \in { String("hi"), Bytes } : Stream(body, "application/octet-stream")

\* ------------------------------------------- mount, with route middlewares
\* get or post(path, handler) and get or post(path, [middlewares], handler)
\* on the subrouter, before it is mounted.
RegisterSubWith(method, path, predicate) ==
  /\ mountLog = << >>
  /\ Size(subRoutes) < MaxSubRoutes
  /\ subRoutes' = Registered(subRoutes, method, path, predicate, NewHandler)
  /\ UNCHANGED <<routes, mountLog, probe, globalMws, errorHandler, rq, securityHeaders,
                 resolverVars, composeVars, builderVars, limiterVars>>

SubPredicates == { IsFunction(NewHandler), IsArray(RouteMiddlewares(NewHandler, MaxRouteMw)) }

SubRegistrations == { <<"GET", Str(<<"f">>)>>, <<"GET", Str(<< >>)>>, <<"post", Str(<< >>)>> }

NextMountFrame ==
  \/ Register("get", Str(<<"f">>))
  \/ \E given \in SubRegistrations, predicate \in SubPredicates :
       RegisterSubWith(given[1], given[2], predicate)
  \/ \E prefix \in Prefixes : Mount(prefix)

\* ------------------------------------------------------- createPathMatcher
\* src/create-path-matcher.js.  A matcher returns null or the object
\* { params, segments }.
MatcherResult(params, segmentsMap) == [params |-> params, segments |-> segmentsMap]

\* matchRemaining(patternParts, pathSegments), lines 105-184, from the
\* state (i, j, params, segmentsMap) of its loop on.
RECURSIVE RemainingFrom(_, _, _, _, _, _)
RemainingFrom(patternParts, pathSegments, i, j, params, segmentsMap) ==
  IF i >= Len(patternParts)
  THEN \* lines 180-183
       IF j = Len(pathSegments) THEN MatcherResult(params, segmentsMap) ELSE NoMatch
  ELSE
    LET part == patternParts[i + 1]
        syn == Syntax(part)
    IN CASE syn.kind = "literal" ->            \* lines 114-119
              IF j < Len(pathSegments) /\ pathSegments[j + 1] = part
              THEN RemainingFrom(patternParts, pathSegments, i + 1, j + 1, params, segmentsMap)
              ELSE NoMatch
         [] syn.kind = "param" ->              \* lines 121-129
              IF j >= Len(pathSegments) THEN NoMatch
              ELSE IF pathSegments[j + 1] \in syn.forbidden THEN NoMatch
              ELSE RemainingFrom(patternParts, pathSegments, i + 1, j + 1,
                                 Put(params, syn.name, pathSegments[j + 1]), segmentsMap)
         [] syn.kind = "star" ->               \* lines 132-138, then 180-181
              MatcherResult(params, segmentsMap)
         [] syn.kind = "nomatch" ->            \* lines 139-140
              NoMatch
         [] syn.countSpec = << >> ->           \* lines 145-149
              MatcherResult(params,
                            IF syn.name # "" THEN Put(segmentsMap, syn.name, Slice(pathSegments, j))
                            ELSE segmentsMap)
         [] OTHER ->                           \* lines 151-176
              LET remainingPattern == Slice(patternParts, i + 1)
                  Sub(count) ==
                    RemainingFrom(remainingPattern, Slice(pathSegments, j + count),
                                  0, 0, NoEntries, NoEntries)
                  counts == {c \in MinCount(syn.countSpec)..MaxCount(syn.countSpec) :
                               Sub(c) # NoMatch}
              IN IF counts = {} THEN NoMatch
                 ELSE LET count == Least(counts)
                          submatch == Sub(count)
                          consumed == SliceTo(pathSegments, j, j + count)
                          named == IF syn.name # "" THEN Put(segmentsMap, syn.name, consumed)
                                   ELSE segmentsMap
                      IN MatcherResult(Merge(params, submatch.params),
                                       Merge(named, submatch.segments))

matchRemaining(patternParts, pathSegments) ==
  RemainingFrom(patternParts, pathSegments, 0, 0, NoEntries, NoEntries)

\* The loop of match(pathname), lines 20-99, from the state (i, j, params,
\* segmentsMap) on.
RECURSIVE PathMatchFrom(_, _, _, _, _, _)
PathMatchFrom(patternParts, pathSegments, i, j, params, segmentsMap) ==
  IF i >= Len(patternParts)
  THEN \* lines 95-99
       IF j = Len(pathSegments) THEN MatcherResult(params, segmentsMap) ELSE NoMatch
  ELSE
    LET part == patternParts[i + 1]
        syn == Syntax(part)
    IN CASE syn.kind = "literal" ->            \* lines 23-30
              IF j < Len(pathSegments) /\ pathSegments[j + 1] = part
              THEN PathMatchFrom(patternParts, pathSegments, i + 1, j + 1, params, segmentsMap)
              ELSE NoMatch
         [] syn.kind = "param" ->              \* lines 32-42
              IF j >= Len(pathSegments) THEN NoMatch
              ELSE IF pathSegments[j + 1] \in syn.forbidden THEN NoMatch
              ELSE PathMatchFrom(patternParts, pathSegments, i + 1, j + 1,
                                 Put(params, syn.name, pathSegments[j + 1]), segmentsMap)
         [] syn.kind = "star" ->               \* lines 45-51, then 95-96
              MatcherResult(params, segmentsMap)
         [] syn.kind = "nomatch" ->            \* lines 52-55
              NoMatch
         [] syn.countSpec = << >> ->           \* lines 60-64
              MatcherResult(params,
                            IF syn.name # "" THEN Put(segmentsMap, syn.name, Slice(pathSegments, j))
                            ELSE segmentsMap)
         [] OTHER ->                           \* lines 66-91
              LET remainingPattern == Slice(patternParts, i + 1)
                  Sub(count) == matchRemaining(remainingPattern, Slice(pathSegments, j + count))
                  counts == {c \in MinCount(syn.countSpec)..MaxCount(syn.countSpec) :
                               Sub(c) # NoMatch}
              IN IF counts = {} THEN NoMatch
                 ELSE LET count == Least(counts)
                          submatch == Sub(count)
                          consumed == SliceTo(pathSegments, j, j + count)
                          named == IF syn.name # "" THEN Put(segmentsMap, syn.name, consumed)
                                   ELSE segmentsMap
                      IN MatcherResult(Merge(params, submatch.params),
                                       Merge(named, submatch.segments))

\* createPathMatcher(pattern)(pathname), lines 1-103, for two strings.
createPathMatcher(pattern, pathname) ==
  PathMatchFrom(Split(pattern), Split(pathname), 0, 0, NoEntries, NoEntries)

\* A matcher is made of a pattern and given the pathname that matchRoute
\* was given; what both returned is kept side by side.
MatchPath(pattern, pathname) ==
  /\ probe.called
  /\ "result" \notin DOMAIN probe
  /\ probe' = [called |-> TRUE, method |-> probe.method, pathname |-> probe.pathname,
               match |-> probe.match, pattern |-> pattern, path |-> pathname,
               result |-> createPathMatcher(pattern, pathname)]
  /\ UNCHANGED <<routes, subRoutes, mountLog, globalMws, errorHandler, rq, securityHeaders,
                 resolverVars, composeVars, builderVars, limiterVars>>

ProbedPathnames == IF probe.called THEN {probe.pathname} ELSE {}

NextPathMatcher ==
  \/ \E path \in Patterns : Register("get", path)
  \/ \E pathname \in Pathnames : MatchRoute("get", pathname)
  \/ \E pattern \in Patterns, pathname \in ProbedPathnames : MatchPath(pattern, pathname)

\* -------------------------------------------------------- AccessRateLimiter
\* src/unnamed/part_001.  An ip is a string like a pathname: the sequence
\* of its tokens.  An option that was not given (undefined) is the empty
\* set, one that was given is the set of its value.
NotGiven == {}
Given(v) == {v}
TheValue(option) == CHOOSE v \in option : TRUE

\* this.rules = [], this._storage = a new Map, lines 21-25 and 242-249
InitLimiter ==
  /\ rules = << >>
  /\ storage = NoEntries
  /\ clock = 0
  /\ handling = [q \in 1..MaxHandled |-> [pc |-> "none"]]

\* _encodeKey(obj), lines 231-235: JSON and base64url of the object, one
\* string per object; `rule.pathPattern || null` is the pattern or, for no
\* pattern and for the empty one, null, written << >>.
BlockKey(key) == [type |-> "block", key |-> key]
CounterKey(type, rule, key) ==
  [type |-> type, ruleType |-> rule.type, key |-> key, pathPattern |-> rule.pathPattern]

\* (await this._storage.get(k)) ?? d
StoredOr(k, d) == IF Has(storage, k) THEN ValueOf(storage, k) ELSE d

NoneHandled == \A q \in DOMAIN handling : handling[q].pc = "none"

\* perIp(limit, { windowMs, concurrency }), lines 27-48
PerIp(limit, windowMs, concurrency) ==
  /\ Len(rules) < MaxRules
  /\ NoneHandled
  /\ limit > 0
  /\ rules' = Append(rules, [type |-> "perIp", pathPattern |-> << >>, rateLimit |-> limit,
                             windowMs |-> windowMs, concurrency |-> concurrency])
  /\ UNCHANGED <<storage, clock, handling, resolverVars, composeVars, dispatcherVars,
                 builderVars>>

\* perPath(pathPattern, { rateLimit, windowMs, concurrency }), lines 50-83
PerPath(pathPattern, rateLimit, windowMs, concurrency) ==
  /\ Len(rules) < MaxRules
  /\ NoneHandled
  /\ rateLimit > 0
  /\ rules' = Append(rules, [type |-> "perPath", pathPattern |-> pathPattern,
                             rateLimit |-> rateLimit, windowMs |-> windowMs,
                             concurrency |-> concurrency])
  /\ UNCHANGED <<storage, clock, handling, resolverVars, composeVars, dispatcherVars,
                 builderVars>>

\* block(key, ms), lines 85-104
Block(key, ms) ==
  /\ ms > 0
  /\ ~Has(storage, BlockKey(key))
  /\ storage' = Put(storage, BlockKey(key), [expiresAt |-> clock + ms])
  /\ UNCHANGED <<rules, clock, handling, resolverVars, composeVars, dispatcherVars,
                 builderVars>>

\* Date.now() has passed a window's length
Tick ==
  /\ clock < MaxClock
  /\ clock' = clock + 1
  /\ UNCHANGED <<rules, storage, handling, resolverVars, composeVars, dispatcherVars,
                 builderVars>>

\* lines 157-164: whether the rule is looked at for the request, and the
\* key it gives it.
Applies(rule, req) ==
  rule.type = "perPath" => createPathMatcher(rule.pathPattern, req.pathname) # NoMatch
KeySelector(rule, req) == IF rule.type = "perIp" THEN req.ip ELSE req.pathname

\* The first rule from the i-th on that the loop of line 155 does not skip.
RECURSIVE FirstApplying(_, _)
FirstApplying(req, i) ==
  IF i > Len(rules) THEN i
  ELSE IF Applies(rules[i], req) THEN i
  ELSE FirstApplying(req, i + 1)

\* The handler from the top of its loop (line 155) for the i-th rule on, up
\* to its next await: the read of _checkBlocked (lines 166, 216-217), or,
\* past the last rule, the call of next (line 205).
AtRule(req, i) ==
  LET k == FirstApplying(req, i)
  IN IF k > Len(rules) THEN [req EXCEPT !.pc = "next", !.i = k]
     ELSE LET bKey == BlockKey(KeySelector(rules[k], req))
          IN [req EXCEPT !.pc = "checkBlocked", !.i = k,
                         !.blocked = Has(storage, bKey)
                                     /\ ValueOf(storage, bKey).expiresAt > req.now]

\* _respondBlocked(res, rule, key, reason), lines 221-229, returned by the
\* handler: it ends there.
RespondBlocked(req, reason) == [req EXCEPT !.pc = "done", !.outcome = reason]

\* The rate part of a rule up to its await, lines 185-192.
ReadEntry(req) ==
  LET rKey == CounterKey("rate", rules[req.i], KeySelector(rules[req.i], req))
  IN [req EXCEPT !.pc = "getEntry",
                 !.entry = StoredOr(rKey, [count |-> 0, start |-> -1])]

\* The middleware handler() returns is called for a request, lines 151-166.
Handle(q, ip, pathname) ==
  /\ handling[q].pc = "none"
  /\ \A p \in DOMAIN handling : p < q => handling[p].pc # "none"
  /\ handling' = [handling EXCEPT ![q] =
       AtRule([pc |-> "start", ip |-> ip, pathname |-> pathname, now |-> clock, i |-> 1,
               blocked |-> FALSE, c |-> 0, entry |-> [count |-> 0, start |-> -1],
               concurrencyKeysToDecrement |-> << >>, d |-> 1, outcome |-> "none"], 1)]
  /\ UNCHANGED <<rules, storage, clock, resolverVars, composeVars, dispatcherVars,
                 builderVars>>

\* lines 166-177 and 185-192, after _checkBlocked
AfterCheckBlocked(q) ==
  LET req == handling[q]
      rule == rules[req.i]
  IN /\ req.pc = "checkBlocked"
     /\ handling' = [handling EXCEPT ![q] =
          IF req.blocked THEN RespondBlocked(req, "blocked")
          ELSE IF rule.concurrency # NotGiven
          THEN [req EXCEPT !.pc = "getCount",
                           !.c = StoredOr(CounterKey("concurrency", rule, KeySelector(rule, req)), 0)]
          ELSE ReadEntry(req)]
     /\ UNCHANGED <<rules, storage, clock, resolverVars, composeVars, dispatcherVars,
                    builderVars>>

\* lines 177-181, after the counter was read
AfterGetCount(q) ==
  LET req == handling[q]
      rule == rules[req.i]
      cKey == CounterKey("concurrency", rule, KeySelector(rule, req))
  IN /\ req.pc = "getCount"
     /\ IF req.c >= TheValue(rule.concurrency)
        THEN /\ handling' = [handling EXCEPT ![q] = RespondBlocked(req, "concurrency")]
             /\ UNCHANGED storage
        ELSE /\ storage' = Put(storage, cKey, req.c + 1)
             /\ handling' = [handling EXCEPT ![q].pc = "setCount"]
     /\ UNCHANGED <<rules, clock, resolverVars, composeVars, dispatcherVars, builderVars>>

\* lines 181-192, after the counter was written
AfterSetCount(q) ==
  LET req == handling[q]
      rule == rules[req.i]
      cKey == CounterKey("concurrency", rule, KeySelector(rule, req))
  IN /\ req.pc = "setCount"
     /\ handling' = [handling EXCEPT ![q] =
          ReadEntry([req EXCEPT !.concurrencyKeysToDecrement = Append(@, cKey)])]
     /\ UNCHANGED <<rules, storage, clock, resolverVars, composeVars, dispatcherVars,
                    builderVars>>

\* lines 192-197, after the rate entry was read
AfterGetEntry(q) ==
  LET req == handling[q]
      rule == rules[req.i]
      rKey == CounterKey("rate", rule, KeySelector(rule, req))
      fresh == req.entry.start < 0 \/ req.now - req.entry.start > rule.windowMs
      entry == IF fresh THEN [count |-> 1, start |-> req.now]
               ELSE [req.entry EXCEPT !.count = @ + 1]
  IN /\ req.pc = "getEntry"
     /\ storage' = Put(storage, rKey, entry)
     /\ handling' = [handling EXCEPT ![q].pc = "setEntry", ![q].entry = entry]
     /\ UNCHANGED <<rules, clock, resolverVars, composeVars, dispatcherVars, builderVars>>

\* lines 197-202, after the rate entry was written, and on to the next rule
\* (lines 155-166) or to next (line 205)
AfterSetEntry(q) ==
  LET req == handling[q]
      rule == rules[req.i]
  IN /\ req.pc = "setEntry"
     /\ handling' = [handling EXCEPT ![q] =
          IF req.entry.count > rule.rateLimit THEN RespondBlocked(req, "rate")
          ELSE AtRule(req, req.i + 1)]
     /\ UNCHANGED <<rules, storage, clock, resolverVars, composeVars, dispatcherVars,
                    builderVars>>

\* The finally block from the d-th key on up to its await, lines 207-208;
\* past the last key the handler ends with what next() gave.
AtDecrement(req, d) ==
  IF d > Len(req.concurrencyKeysToDecrement) THEN [req EXCEPT !.pc = "done", !.d = d]
  ELSE [req EXCEPT !.pc = "getRemaining", !.d = d,
                   !.c = StoredOr(req.concurrencyKeysToDecrement[d], 1)]

\* lines 204-208: the promise of next() is resolved or rejected
NextSettled(q, resolved) ==
  LET req == handling[q]
  IN /\ req.pc = "next"
     /\ handling' = [handling EXCEPT ![q] =
          AtDecrement([req EXCEPT !.outcome = IF resolved THEN "returned" ELSE "threw"], 1)]
     /\ UNCHANGED <<rules, storage, clock, resolverVars, composeVars, dispatcherVars,
                    builderVars>>

\* lines 208-209, after the counter was read
AfterGetRemaining(q) ==
  LET req == handling[q]
      cKey == req.concurrencyKeysToDecrement[req.d]
  IN /\ req.pc = "getRemaining"
     /\ storage' = Put(storage, cKey, IF req.c - 1 > 0 THEN req.c - 1 ELSE 0)
     /\ handling' = [handling EXCEPT ![q].pc = "setRemaining"]
     /\ UNCHANGED <<rules, clock, resolverVars, composeVars, dispatcherVars, builderVars>>

\* lines 207-211, after the counter was written
AfterSetRemaining(q) ==
  LET req == handling[q]
  IN /\ req.pc = "setRemaining"
     /\ handling' = [handling EXCEPT ![q] = AtDecrement(req, req.d + 1)]
     /\ UNCHANGED <<rules, storage, clock, resolverVars, composeVars, dispatcherVars,
                    builderVars>>

\* The inputs: the ips and pathnames of the requests, the options of the
\* rules.
Ips == { <<"a">> }
LimitedPaths == { Str(<<"f">>), Str(<<"f", "a">>) }
Concurrencies == { NotGiven, Given(1), Given(2) }

NextLimiter ==
  \/ \E concurrency \in Concurrencies : PerIp(1, 0, concurrency)
  \/ \E concurrency \in Concurrencies : PerPath(Str(<<"f">>), 1, 0, concurrency)
  \/ \E ip \in Ips : Block(ip, 1)
  \/ Tick
  \/ \E q \in DOMAIN handling, ip \in Ips, pathname \in LimitedPaths : Handle(q, ip, pathname)
  \/ \E q \in DOMAIN handling : AfterCheckBlocked(q)
  \/ \E q \in DOMAIN handling : AfterGetCount(q)
  \/ \E q \in DOMAIN handling : AfterSetCount(q)
  \/ \E q \in DOMAIN handling : AfterGetEntry(q)
  \/ \E q \in DOMAIN handling : AfterSetEntry(q)
  \/ \E q \in DOMAIN handling, resolved \in BOOLEAN : NextSettled(q, resolved)
  \/ \E q \in DOMAIN handling : AfterGetRemaining(q)
  \/ \E q \in DOMAIN handling : AfterSetRemaining(q)

\* ----------------------------------------------------------- specifications
InitSpecRespond ==
  /\ InitResolverWith([calls |-> MaxCalls, loads |-> MaxLoads])
  /\ InitComposeUnused
  /\ InitDispatcher
  /\ InitBuilder
  /\ InitLimiter

InitSpecServe ==
  /\ InitResolverWith([calls |-> MaxCalls, loads |-> MaxLoads])
  /\ InitComposeUnused
  /\ InitDispatcher
  /\ InitBuilder
  /\ InitLimiter

InitSpecMount ==
  /\ InitResolverWith([calls |-> MaxCalls, loads |-> MaxLoads])
  /\ InitComposeUnused
  /\ InitDispatcher
  /\ InitBuilder
  /\ InitLimiter

InitSpecResolver ==
  /\ InitResolverWith([calls |-> MaxCalls, loads |-> MaxLoads])
  /\ InitComposeUnused
  /\ InitDispatcher
  /\ InitBuilder
  /\ InitLimiter

InitSpecResolverDeep ==
  /\ InitResolverWith([calls |-> DeepCalls, loads |-> DeepLoads])
  /\ InitComposeUnused
  /\ InitDispatcher
  /\ InitBuilder
  /\ InitLimiter

InitSpecCompose ==
  /\ InitResolverWith([calls |-> MaxCalls, loads |-> MaxLoads])
  /\ InitCompose
  /\ InitDispatcher
  /\ InitBuilder
  /\ InitLimiter

InitSpecMatch ==
  /\ InitResolverWith([calls |-> MaxCalls, loads |-> MaxLoads])
  /\ InitComposeUnused
  /\ InitDispatcher
  /\ InitBuilder
  /\ InitLimiter

InitSpecRegister ==
  /\ InitResolverWith([calls |-> MaxCalls, loads |-> MaxLoads])
  /\ InitComposeUnused
  /\ InitDispatcher
  /\ InitBuilder
  /\ InitLimiter

InitSpecInterleaved ==
  /\ InitResolverWith([calls |-> MaxCalls, loads |-> MaxLoads])
  /\ InitInterleaved
  /\ InitDispatcher
  /\ InitBuilder
  /\ InitLimiter

InitSpecBuilder ==
  /\ InitResolverWith([calls |-> MaxCalls, loads |-> MaxLoads])
  /\ InitComposeUnused
  /\ InitDispatcher
  /\ InitBuilder
  /\ InitLimiter

InitSpecMountFrame ==
  /\ InitResolverWith([calls |-> MaxCalls, loads |-> MaxLoads])
  /\ InitComposeUnused
  /\ InitDispatcher
  /\ InitBuilder
  /\ InitLimiter

InitSpecPathMatcher ==
  /\ InitResolverWith([calls |-> MaxCalls, loads |-> MaxLoads])
  /\ InitComposeUnused
  /\ InitDispatcher
  /\ InitBuilder
  /\ InitLimiter

InitSpecLimiter ==
  /\ InitResolverWith([calls |-> MaxCalls, loads |-> MaxLoads])
  /\ InitComposeUnused
  /\ InitDispatcher
  /\ InitBuilder
  /\ InitLimiter

SpecResolver == InitSpecResolver /\ [][NextResolver]_vars

SpecResolverDeep == InitSpecResolverDeep /\ [][NextResolver]_vars

SpecCompose == InitSpecCompose /\ [][NextCompose]_vars

SpecMatch == InitSpecMatch /\ [][NextMatch]_vars

SpecMount == InitSpecMount /\ [][NextMount]_vars

SpecRespond == InitSpecRespond /\ [][NextRespond]_vars

SpecServe == InitSpecServe /\ [][NextServe]_vars

SpecRegister == InitSpecRegister /\ [][NextRegister]_vars

SpecInterleaved == InitSpecInterleaved /\ [][NextInterleaved]_vars

SpecBuilder == InitSpecBuilder /\ [][NextBuilder]_vars

SpecMountFrame == InitSpecMountFrame /\ [][NextMountFrame]_vars

SpecPathMatcher == InitSpecPathMatcher /\ [][NextPathMatcher]_vars

SpecLimiter == InitSpecLimiter /\ [][NextLimiter]_vars

\* ------------------------------------------------- claims on the Resolver
Ended_(call) == call.pc = "done"

LoadsWhy(k, kind) == {l \in DOMAIN loads : loads[l].key = k /\ loads[l].why.kind = kind}

\* C1: the get calls issued on a lazy, not yet resolved key before a
\* producer result arrives start exactly one producer invocation between
\* them, and all of them wait for, and resolve to, the same value.
C1_DedupOneInvocation ==
  /\ \A k \in Keys : Cardinality(LoadsWhy(k, "open")) <= 1
  /\ \A c, d \in DOMAIN calls :
       (calls[c].tag = "open" /\ calls[d].tag = "open" /\ calls[c].key = calls[d].key)
       => /\ (calls[c].pc = "await" /\ calls[d].pc = "await")
               => calls[c].wait = calls[d].wait
          /\ (Ended_(calls[c]) /\ Ended_(calls[d])) => calls[c].ret = calls[d].ret

\* C2: at most one producer invocation is in flight for a key at any time.
C2_OneInFlightPerKey ==
  \A k \in Keys : Cardinality(InFlight(k)) <= 1

\* C3: a get of a key that was deleted or cleared and not added again
\* returns null, also after a load that was in flight has completed.
C3_AbandonedLoadNotCached ==
  \A c \in DOMAIN calls :
    (calls[c].tag = "gone" /\ Ended_(calls[c])) => IsNull(calls[c].ret)

\* C4: the get calls for which the purge predicate answered true on one
\* cached value start one producer invocation between them, and each
\* returns a value other than the purged one.
C4_PurgeOneReload ==
  /\ \A l, m \in DOMAIN loads :
       (loads[l].why.kind = "purged" /\ loads[m].why = loads[l].why) => l = m
  /\ \A c \in DOMAIN calls :
       (calls[c].tag = "cached" /\ calls[c].purged /\ Ended_(calls[c])
          /\ calls[c].seen.raw > 0)
       => calls[c].ret.raw # calls[c].seen.raw

\* C5: a get of a lazy key whose entry was stored by a completed load, and
\* whose purge predicate did not answer true, returns the cached value and
\* neither starts nor awaits a producer invocation.
C5_ResolvedStaysResolved ==
  \A c \in DOMAIN calls :
    (calls[c].tag = "cached" /\ ~calls[c].purged)
    => /\ calls[c].pc # "await"
       /\ Ended_(calls[c]) => calls[c].ret = calls[c].seen

\* C6: a get of a key added with a plain value returns that value and
\* neither starts nor awaits a producer invocation.
C6_PlainValueReturned ==
  \A c \in DOMAIN calls :
    calls[c].tag = "plain"
    => /\ calls[c].pc \in {"purge", "done"}
       /\ Ended_(calls[c]) => calls[c].ret = calls[c].expect

\* C7: a value cached by a load is the adapter applied once to the producer
\* result (not at all without an adapter), on the first load and on every
\* reload; a value a get returns from the cache is the cached value itself.
C7_AdapterAppliedOnce ==
  /\ \A k \in Keys :
       resolvedValues[k].loaded
       => resolvedValues[k].value.wraps = IF resolvedValues[k].Adapter THEN 1 ELSE 0
  /\ \A c \in DOMAIN calls :
       Ended_(calls[c])
       => /\ calls[c].ret.wraps <= 1
          /\ calls[c].via = "cache" => calls[c].ret = calls[c].seen

\* A reload of a key that has an adapter has ended: its load, the second
\* producer invocation, has cached the wrapped result and handed it on.
C7_Witness ==
  \E c \in DOMAIN calls, k \in Keys :
    /\ Ended_(calls[c]) /\ calls[c].tag = "reload" /\ calls[c].via = "load"
    /\ calls[c].key = k
    /\ calls[c].ret = [raw |-> 2, wraps |-> 1]
    /\ resolvedValues[k].loaded /\ resolvedValues[k].Adapter
    /\ resolvedValues[k].value = calls[c].ret

\* -------------------------------------------------- claims on the pipeline
Finished(run) == run.status \in {"done", "failed"}

\* <<0, 1, ..., m>>
UpTo(m) == [j \in 1..(m + 1) |-> j - 1]

StartedSet(run) == {run.started[j] : j \in DOMAIN run.started}

\* C8: when every middleware calls next once, one invocation starts stage
\* 0, 1, ..., n (the handler) in that order, each once: what has started
\* is always a prefix of that order, and all of it once the invocation ends.
C8_MiddlewareOrder ==
  \A r \in Runs :
    (\A i \in 1..NumMw : middlewares[i].calls = 1)
    => /\ Len(runs[r].started) <= NumMw + 1
       /\ runs[r].started = UpTo(Len(runs[r].started) - 1)
       /\ Finished(runs[r]) => runs[r].started = UpTo(NumMw)

\* An invocation of two middlewares and a handler, each middleware calling
\* next once, has ended.
C8_Witness ==
  \E r \in Runs :
    /\ NumMw >= 2
    /\ \A i \in 1..NumMw : middlewares[i].calls = 1
    /\ runs[r].status = "done"
    /\ runs[r].started = UpTo(NumMw)

\* C9: every call of next by a stage after its first one ends with the
\* 'called multiple times' error and starts nothing, so no stage is started
\* twice in one invocation.
C9_NextOnce ==
  \A r \in Runs :
    /\ \A i \in Stages : \A j \in DOMAIN runs[r].log[i] :
         j >= 2 => runs[r].log[i][j] = "error"
    /\ \A j, k \in DOMAIN runs[r].started :
         runs[r].started[j] = runs[r].started[k] => j = k

\* A middleware has called next a second time after the first call had
\* started the next stage.
C9_Witness ==
  \E r \in Runs : \E i \in Stages :
    /\ i < NumMw
    /\ Len(runs[r].log[i]) >= 2
    /\ runs[r].log[i][1] = "called"
    /\ runs[r].log[i][2] = "error"

\* Middleware i has returned without calling next.
ShortCircuited(run, i) ==
  /\ i < NumMw
  /\ middlewares[i + 1].calls = 0
  /\ i \in StartedSet(run)
  /\ \A j \in DOMAIN run.stack : run.stack[j].stage # i

\* C10 as claimed: once a middleware has returned without calling next, no
\* later stage is started and the result of the pipeline is the value that
\* middleware returned.
C10_ShortCircuitAsClaimed ==
  \A r \in Runs : \A i \in Stages :
    ShortCircuited(runs[r], i)
    => /\ \A s \in StartedSet(runs[r]) : s <= i
       /\ runs[r].status = "done" => runs[r].result = Own(i)

\* Middleware j calls next once and returns what that call yielded.
PassesOn(j) == middlewares[j].calls = 1 /\ middlewares[j].propagate

\* C10 as amended: no later stage is started; the result of the pipeline
\* is the value that middleware returned when every earlier middleware
\* calls next once and returns what that call yielded.
C10_ShortCircuit ==
  \A r \in Runs : \A i \in Stages :
    ShortCircuited(runs[r], i)
    => /\ \A s \in StartedSet(runs[r]) : s <= i
       /\ (runs[r].status = "done" /\ \A j \in 1..i : PassesOn(j))
            => runs[r].result = Own(i)

\* The second of two middlewares has returned without calling next, the
\* first has called next once and returned what it yielded, and the
\* invocation has ended with the value of the second.
C10_Witness ==
  \E r \in Runs :
    /\ NumMw >= 2
    /\ ShortCircuited(runs[r], 1)
    /\ PassesOn(1)
    /\ runs[r].status = "done"
    /\ runs[r].result = Own(1)

\* --------------------------------------------------- claims on matchRoute
IsLiteral(part) == Syntax(part).kind = "literal"
IsParam(part) == Syntax(part).kind = "param"
IsCatchAll(part) ==
  Syntax(part).kind = "star" \/ (Syntax(part).kind = "wildcard" /\ Syntax(part).countSpec = << >>)
IsCounted(part) == Syntax(part).kind = "wildcard" /\ Syntax(part).countSpec # << >>

\* The matching of a pattern's parts against a path's segments as section
\* 4.1 of the specification describes it: a literal or a param takes one
\* segment, a catch-all takes the rest, a counted wildcard takes a run of
\* min..max segments such that the parts after it match what follows.
RECURSIVE Accepts(_, _)
Accepts(parts, segs) ==
  IF parts = << >> THEN segs = << >>
  ELSE LET part == Head(parts)
       IN CASE IsLiteral(part) -> segs # << >> /\ Head(segs) = part /\ Accepts(Tail(parts), Tail(segs))
            [] IsParam(part) ->
                 /\ segs # << >>
                 /\ Head(segs) \notin Syntax(part).forbidden
                 /\ Accepts(Tail(parts), Tail(segs))
            [] IsCatchAll(part) -> TRUE
            [] IsCounted(part) ->
                 \E n \in MinCount(Syntax(part).countSpec)..MaxCount(Syntax(part).countSpec) :
                   n <= Len(segs) /\ Accepts(Tail(parts), Slice(segs, n))
            [] OTHER -> FALSE

\* The same with the two fast paths of section 4.1.
AcceptsPath(path, pathname) ==
  path = pathname \/ path = <<"*">> \/ Accepts(Split(path), Split(pathname))

\* The candidates of the probed method whose pattern accepts the pathname.
Accepting ==
  LET cands == Candidates(routes, probe.method)
  IN {k \in DOMAIN cands : AcceptsPath(cands[k].path, probe.pathname)}

\* C12: matchRoute returns a route if and only if some pattern registered
\* for the method matches the path under the algorithm of section 4.1.
C12_LookupIffPatternMatches ==
  probe.called => ((probe.match # NoMatch) <=> (Accepting # {}))

\* C13: when several patterns registered for the method match the path,
\* matchRoute returns the handler of the one registered first.
C13_FirstRegisteredWins ==
  (probe.called /\ Cardinality(Accepting) >= 2)
  => /\ probe.match # NoMatch
     /\ probe.match.handler = Candidates(routes, probe.method)[Least(Accepting)].handler

\* The probe was made on a table that holds one route for the method.
OnlyRoute == Candidates(routes, probe.method)[1]
ProbedOne == probe.called /\ Len(Candidates(routes, probe.method)) = 1

AllOf(parts, Test(_)) == \A k \in DOMAIN parts : Test(parts[k])

\* parts is literals, one named counted wildcard at position w, literals
\* (at least one).
BoundedForm(parts, w) ==
  /\ w \in DOMAIN parts /\ w < Len(parts)
  /\ IsCounted(parts[w]) /\ Syntax(parts[w]).name # ""
  /\ \A k \in DOMAIN parts : k # w => IsLiteral(parts[k])

\* C14: a pattern with a counted wildcard `*min-max:name` between literal
\* segments matches a path exactly when the path is the literals before,
\* a run of min..max segments, and the literals after; it then binds
\* segments[name] to that run.
C14_BoundedWildcard ==
  ProbedOne =>
    LET parts == Split(OnlyRoute.path)
        segs == Split(probe.pathname)
    IN \A w \in DOMAIN parts :
         BoundedForm(parts, w) =>
           LET before == SubSeq(parts, 1, w - 1)
               after == SubSeq(parts, w + 1, Len(parts))
               n == Len(segs) - Len(before) - Len(after)
               run == SubSeq(segs, w, w + n - 1)
               fits == /\ n >= MinCount(Syntax(parts[w]).countSpec)
                       /\ n <= MaxCount(Syntax(parts[w]).countSpec)
                       /\ segs = before \o run \o after
           IN /\ (probe.match # NoMatch) <=> fits
              /\ fits => /\ Has(probe.match.segments, Syntax(parts[w]).name)
                         /\ ValueOf(probe.match.segments, Syntax(parts[w]).name) = run

LiteralOrParam(part) == IsLiteral(part) \/ IsParam(part)

\* C15: in a pattern of literals and params, a param segment matches one
\* path segment: the route matches exactly when every literal equals, and
\* every param finds, the segment at its position and no param finds a
\* forbidden value; the match binds params[name] to the segment.
C15_ParamBinding ==
  ProbedOne =>
    LET parts == Split(OnlyRoute.path)
        segs == Split(probe.pathname)
        fits == /\ Len(segs) = Len(parts)
                /\ \A k \in DOMAIN parts :
                     IF IsParam(parts[k]) THEN segs[k] \notin Syntax(parts[k]).forbidden
                     ELSE segs[k] = parts[k]
    IN (AllOf(parts, LiteralOrParam) /\ \E k \in DOMAIN parts : IsParam(parts[k]))
       => /\ (probe.match # NoMatch) <=> fits
          /\ fits => \A k \in DOMAIN parts :
                       IsParam(parts[k])
                       => /\ Has(probe.match.params, Syntax(parts[k]).name)
                          /\ ValueOf(probe.match.params, Syntax(parts[k]).name) = segs[k]

\* Some leading segments of segs match the parts of prefix.
LeadMatches(prefix, segs) ==
  \E n \in 0..Len(segs) : Accepts(prefix, SubSeq(segs, 1, n))

\* C16: a pattern whose last segment is a catch-all matches every path whose
\* leading segments match the parts before it; a bare `*` binds nothing,
\* `*:rest` binds segments.rest to the remaining segments (checked where the
\* parts before it take one segment each).
C16_CatchAll ==
  ProbedOne =>
    LET parts == Split(OnlyRoute.path)
        segs == Split(probe.pathname)
        prefix == SubSeq(parts, 1, Len(parts) - 1)
        last == parts[Len(parts)]
    IN (parts # << >> /\ IsCatchAll(last) /\ LeadMatches(prefix, segs))
       => /\ probe.match # NoMatch
          /\ AllOf(prefix, LiteralOrParam)
             => IF Syntax(last).kind = "wildcard" /\ Syntax(last).name # ""
                THEN /\ Has(probe.match.segments, Syntax(last).name)
                     /\ ValueOf(probe.match.segments, Syntax(last).name)
                          = Slice(segs, Len(prefix))
                ELSE probe.match.segments = NoEntries

\* -------------------------------------------------------- claims on mount
LastMount == mountLog[Len(mountLog)]

\* The pathnames p that, joined to the prefix of the last mount, give the
\* pathname the parent was probed with, and that the subrouter matched
\* when it was mounted.
MountedHits ==
  {p \in SubPathnames :
     /\ JoinOne(LastMount.prefix, p) = probe.pathname
     /\ matchRoute(LastMount.sub, probe.method, p) # NoMatch}

SameAsInSub(p) ==
  /\ probe.match # NoMatch
  /\ probe.match.handler = matchRoute(LastMount.sub, probe.method, p).handler

\* C17 as claimed: after mount(prefix, sub), a path the subrouter matched
\* is matched by the parent under prefix + path joined with one slash, with
\* the same handler.
C17_MountAsClaimed ==
  (mountLog # << >> /\ probe.called) => \A p \in MountedHits : SameAsInSub(p)

\* C17 as amended: the same, where no route the parent held before the
\* mount matches the joined path.
C17_Mount ==
  (mountLog # << >> /\ probe.called
     /\ matchRoute(LastMount.before, probe.method, probe.pathname) = NoMatch)
  => \A p \in MountedHits : SameAsInSub(p)

\* The parent, mounted with a prefix that ends with a slash, has matched
\* the joined path of a route of the subrouter.
C17_Witness ==
  /\ mountLog # << >> /\ probe.called
  /\ EndsWithSlash(LastMount.prefix) /\ Len(LastMount.prefix) > 1
  /\ matchRoute(LastMount.before, probe.method, probe.pathname) = NoMatch
  /\ \E p \in MountedHits : p # << Slash >> /\ SameAsInSub(p)

\* ------------------------------------------------------ claims on respond
\* The pipeline of the request has been called.
InPipeline == rq.phase # "none" /\ rq.via # "direct"

\* Who the stages started so far are, in the order they were started.
StartedIds == [k \in DOMAIN runs["r1"].started |-> Fn(runs["r1"].started[k]).id]

Ids(stages) == [k \in DOMAIN stages |-> stages[k].id]

\* The route, as registered, that matchRoute answered with.
RouteOf(match) ==
  CHOOSE route \in UNION {{routes[m][k] : k \in DOMAIN routes[m]} : m \in DOMAIN routes} :
    route.handler = match.handler

\* The global middlewares in the order of use, then the middlewares of the
\* route in the order of its array, then its handler.
ExpectedIds ==
  Ids(globalMws) \o Ids(RouteOf(rq.match).middlewares) \o << RouteOf(rq.match).handler.id >>

\* a comes before b: global before route before handler, and by
\* registration position inside a group.
Before(a, b) ==
  \/ a.grp = "global" /\ b.grp \in {"route", "handler"}
  \/ a.grp = "route" /\ b.grp = "handler"
  \/ a.grp = b.grp /\ a.pos < b.pos

\* C11: for a matched route the stages respond starts are the global
\* middlewares in the order of use, then the route's middlewares in the
\* order given at registration, then the handler; where no stage throws,
\* all of them are started.
C11_GlobalFirst ==
  InPipeline =>
    /\ Len(StartedIds) <= Len(ExpectedIds)
    /\ StartedIds = SubSeq(ExpectedIds, 1, Len(StartedIds))
    /\ \A k, l \in DOMAIN StartedIds : k < l => Before(StartedIds[k], StartedIds[l])
    /\ runs["r1"].status = "done" => StartedIds = ExpectedIds

\* Two global middlewares, two middlewares of the route and the handler
\* have run for a request.
C11_Witness ==
  /\ InPipeline
  /\ runs["r1"].status = "done"
  /\ Len(globalMws) >= 2
  /\ Len(rq.match.middlewares) >= 2
  /\ Len(StartedIds) = Len(globalMws) + Len(rq.match.middlewares) + 1

\* The matched route was registered with a validator that the request
\* fails.
FailsValidation ==
  /\ rq.phase # "none"
  /\ rq.match # NoMatch
  /\ rq.request.isRequest
  /\ \/ "body" \in RouteOf(rq.match).options.validate /\ rq.request.input = "badBody"
     \/ "query" \in RouteOf(rq.match).options.validate /\ rq.request.input = "badQuery"

\* C18: a request that fails a validator of the matched route is answered
\* with the 400 response and no middleware and no handler is started.
C18_ValidationFirst ==
  FailsValidation =>
    /\ rq.phase = "settled"
    /\ rq.outcome.settled = "resolved"
    /\ rq.outcome.value.type = "Response"
    /\ rq.outcome.value.status = 400
    /\ runs["r1"].started = << >>

\* C19: once the pipeline of a matched request has been called, respond
\* resolves to a response, whatever is thrown.
C19_NeverRejects ==
  (rq.phase = "settled" /\ rq.via \in {"then", "catch"}) =>
    /\ rq.outcome.settled = "resolved"
    /\ rq.outcome.value.type = "Response"

\* The finished response the error handler yields, directly or through a
\* promise; Null when it yields none.
FinishedResponse(handler) ==
  IF handler.is # "function" \/ handler.throws THEN Null
  ELSE IF handler.value.type = "Response" THEN handler.value
  ELSE IF handler.value.type = "Promise" /\ handler.value.settles.settled = "resolved"
          /\ handler.value.settles.value.type = "Response"
  THEN handler.value.settles.value
  ELSE Null

\* C20: when the pipeline throws, respond returns the finished response
\* of the error handler, and otherwise the canonical JSON error with the
\* status of the error, or 500.
C20_ErrorHandling ==
  (rq.phase = "settled" /\ rq.via = "catch") =>
    rq.outcome =
      Resolved(IF FinishedResponse(errorHandler) # Null THEN FinishedResponse(errorHandler)
               ELSE Response(IF rq.thrown.status # 0 THEN rq.thrown.status ELSE 500,
                             "error", Json))

\* --------------------------------------- claims on respond: normalisation
\* respond has normalised the result of the pipeline.
ViaThen == rq.phase = "settled" /\ rq.via = "then"

StatusAndBody(response) == << response.status, response.body >>

\* The response of a builder that was ended: the one it holds, or the
\* redirect it was told to make.
ResponseOf(res) == IF res.redirect THEN RedirectResponse ELSE res.rawResponse

\* The precedence of C21 on the result and the request's builder res.
Precedence(result, res) ==
  IF result.type = "Response" THEN StatusAndBody(result)
  ELSE IF result.type = "ResponseBuilder" THEN StatusAndBody(result.built)
  ELSE IF res.ended THEN StatusAndBody(ResponseOf(res))
  ELSE IF result.type = "Object" THEN << 200, "json" >>
  ELSE IF result.type = "Error" THEN << 500, "{}" >>
  ELSE << 204, "null" >>

\* C21: the response respond gives for a pipeline result follows the
\* precedence Response, ResponseBuilder, ended builder of the request
\* (also when ended by redirect), plain object, Error, empty 204.
C21_Normalization ==
  ViaThen => StatusAndBody(rq.outcome.value) = Precedence(rq.result, rq.res)

\* C22: a response made by normalising a pipeline result carries every
\* header configured with setSecurityHeaders.
C22_SecurityHeaders ==
  ViaThen => \A h \in securityHeaders : Has(rq.outcome.value.headers, h[1])

\* C23: a header of the finalized response is kept with its value, also
\* when a security header of the same name is configured.
C23_NoOverwrite ==
  (ViaThen /\ FinalResponse(rq.result, rq.res) # Null) =>
    \A h \in FinalResponse(rq.result, rq.res).headers : h \in rq.outcome.value.headers

\* C24: an OPTIONS request is answered with the empty 204 response with
\* the CORS headers; no route is looked up and no stage is started.
C24_Preflight ==
  (rq.phase # "none" /\ rq.request.method = "OPTIONS") =>
    /\ rq.phase = "settled"
    /\ rq.via = "direct"
    /\ rq.outcome.settled = "resolved"
    /\ StatusAndBody(rq.outcome.value) = << 204, "null" >>
    /\ << "Access-Control-Allow-Origin", "*" >> \in rq.outcome.value.headers
    /\ rq.match = NoMatch
    /\ runs["r1"].started = << >>

\* An OPTIONS request was answered while a route registered with all()
\* for method options matches its path and a global middleware is set.
C24_Witness ==
  /\ rq.phase = "settled"
  /\ rq.request.method = "OPTIONS"
  /\ rq.request.isRequest
  /\ matchRoute(routes, "options", Pathname(rq.request.path)) # NoMatch
  /\ globalMws # << >>

\* No route matches the request respond was given.
Unmatched ==
  /\ rq.phase # "none"
  /\ rq.request.method # "OPTIONS"
  /\ matchRoute(routes, ToLowerCase(rq.request.method), Pathname(rq.request.path)) = NoMatch

\* C25: a request no route matches is answered with 404 at once: no
\* stage is started and the error handler is not called.
C25_NotFound ==
  Unmatched =>
    /\ rq.phase = "settled"
    /\ rq.via = "direct"
    /\ rq.outcome.settled = "resolved"
    /\ rq.outcome.value.type = "Response"
    /\ rq.outcome.value.status = 404
    /\ runs["r1"].started = << >>

\* A request was answered with 404 by a dispatcher that has a route, a
\* global middleware and an error handler.
C25_Witness ==
  /\ Unmatched
  /\ rq.phase = "settled"
  /\ Size(routes) > 0
  /\ globalMws # << >>
  /\ errorHandler # NoErrorHandler

\* ----------------------------------------------- claims on registration
\* A path that is not a string starting with a slash.
NotAPath(path) == path = << >> \/ path[1] # "/"

Registering == "threw" \in DOMAIN probe

\* C26: registering a route whose pattern does not start with a slash
\* fails with an error and leaves the route table as it was: no route is
\* added and no list is created for a method that had none.
C26_RejectedRegistration ==
  (Registering /\ NotAPath(probe.path))
  => /\ probe.threw
     /\ routes = probe.before
     /\ DOMAIN routes = DOMAIN probe.before

\* A rejected post on a table that holds get routes only.
C26_Witness ==
  /\ Registering
  /\ NotAPath(probe.path)
  /\ probe.method = "POST"
  /\ DOMAIN probe.before = {"get"}

\* C29: when the walk over a pattern reaches a plain catch-all (`*` or
\* `*:name`) with every part before it satisfied by leading segments of the
\* path, a counted wildcard among them included, the route matches,
\* whatever segments of the path remain and whatever parts follow the
\* catch-all in the pattern.
C29_CatchAllEndsWalk ==
  ProbedOne =>
    LET parts == Split(OnlyRoute.path)
        segs == Split(probe.pathname)
    IN \A c \in DOMAIN parts :
         (IsCatchAll(parts[c]) /\ LeadMatches(SubSeq(parts, 1, c - 1), segs))
         => probe.match # NoMatch

\* The named form of a counted wildcard written without a name.
NamedForm(part) == IF part = "*2" THEN "*2:w" ELSE part

Renamed(path) == [k \in DOMAIN path |-> NamedForm(path[k])]

\* What matchRoute returns for the probed path when the only route of the
\* method is registered with the named form of its pattern.
NamedMatch ==
  matchRoute([routes EXCEPT ![probe.method] = << [OnlyRoute EXCEPT !.path = Renamed(@)] >>],
             probe.method, probe.pathname)

\* C30: a counted wildcard written without a name (`*2`) is accepted and
\* matches the paths its named form (`*2:w`) matches, binding no name.
C30_UnnamedCounted ==
  (ProbedOne /\ Renamed(OnlyRoute.path) # OnlyRoute.path)
  => /\ (probe.match # NoMatch) <=> (NamedMatch # NoMatch)
     /\ (probe.match # NoMatch) => ~Has(probe.match.segments, "w")

\* ------------------------------------------ claims on two invocations
\* C28: with two invocations of one pipeline interleaved, in each of them
\* the first call of next by a stage never ends with the 'called multiple
\* times' error and every later call by that stage does.
C28_IndependentInvocations ==
  \A r \in DOMAIN runs : \A i \in DOMAIN runs[r].log :
    \A j \in DOMAIN runs[r].log[i] :
      (runs[r].log[i][j] = "error") <=> (j >= 2)

\* Both invocations are under way and the first is further down the
\* pipeline than the second; a stage of the second has made its first call
\* of next, which started the next stage, and a stage of the first has made
\* a second call, which ended with the error.
C28_Witness ==
  /\ DOMAIN runs = TwoRuns
  /\ runs["r1"].status = "running"
  /\ runs["r2"].status = "running"
  /\ runs["r2"].index < runs["r1"].index
  /\ \E i \in DOMAIN runs["r2"].log : runs["r2"].log[i] = <<"called">>
  /\ \E i \in DOMAIN runs["r1"].log : runs["r1"].log[i] = <<"called", "error">>

\* ----------------------------------------------- claims on ResponseBuilder
\* C27: once a terminal operation (end, sendText, sendJSON, sendHTML,
\* stream, setBody) has returned a response R, every later terminal
\* operation on the builder returns R itself, and the status, headers and
\* body of R stay what they were when R was first returned.
C27_TerminalIdempotent ==
  sent.R # 0
  => /\ \A k \in DOMAIN sent.later : sent.later[k] = sent.R
     /\ Content(heap, sent.R) = sent.content

\* A response was returned with one Content-Type, and a later terminal
\* operation, which set another Content-Type on the builder, returned too.
C27_Witness ==
  /\ sent.R # 0
  /\ Len(sent.later) >= 1
  /\ Has(sent.content.headers, "Content-Type")
  /\ Has(heap[builder.headers].entries, "Content-Type")
  /\ ValueOf(heap[builder.headers].entries, "Content-Type")
       # ValueOf(sent.content.headers, "Content-Type")

\* ---------------------------------------------- claims on the fast path
\* C38: a match returned for a route whose pattern has a parameter segment
\* `:name` has an entry for name in params, also when the path is the
\* pattern string itself.
C38_ParamsBound ==
  (ProbedOne /\ probe.match # NoMatch)
  => \A k \in DOMAIN Split(OnlyRoute.path) :
       IsParam(Split(OnlyRoute.path)[k])
       => Has(probe.match.params, Syntax(Split(OnlyRoute.path)[k]).name)

\* ------------------------------------- claims on respond: forwarding
\* C33: when the pipeline resolves to a Response, respond gives a response
\* with its status and body, a header for every header it has, and every
\* configured security header.
C33_ResponseForwarded ==
  (ViaThen /\ rq.result.type = "Response")
  => /\ rq.outcome.value.status = rq.result.status
     /\ rq.outcome.value.body = rq.result.body
     /\ \A h \in rq.result.headers : Has(rq.outcome.value.headers, h[1])
     /\ \A h \in securityHeaders : h \in rq.outcome.value.headers

\* C34: when the request adapter cannot be constructed for a matched
\* route, respond resolves to a response with status 500; it does not
\* reject, and no middleware or handler is started.
C34_AdapterFailure ==
  (rq.phase # "none" /\ ~rq.request.isRequest /\ rq.request.method # "OPTIONS"
     /\ rq.match # NoMatch)
  => /\ rq.phase = "settled"
     /\ runs["r1"].started = << >>
     /\ rq.outcome.settled = "resolved"
     /\ rq.outcome.value.type = "Response"
     /\ rq.outcome.value.status = 500

\* ------------------------------------------ claims on mount: the tables
\* The copies the last mount appended for method m stand right after the
\* routes the parent held for m before it.
CopyOf(m, k) == routes[m][Len(Candidates(LastMount.before, m)) + k]

C35_PendingOnlyInFlight ==
  \A k \in Keys : pendingLoads[k] # 0 => pendingLoads[k] \in InFlight(k)

\* The value a producer result becomes under the registration the key has
\* now: wrapped by its Adapter once, or not at all.
UnderRegistration(k, v) ==
  v.raw >= 0 /\ v.wraps = IF promisedValues[k].Adapter THEN 1 ELSE 0

\* C36: after add for a key, a get or reload issued later (and before the
\* next add, delete or clear of the key) returns the plain value that was
\* added, or a result of the producer that was added, made the way that
\* registration says; nothing of an earlier registration of the key.
C36_AddReplaces ==
  \A c \in DOMAIN calls :
    (Ended_(calls[c]) /\ calls[c].tag \notin {"x", "gone"})
    => IF reg[calls[c].key].kind = "plain"
       THEN calls[c].tag = "plain" => calls[c].ret = reg[calls[c].key].plain
       ELSE UnderRegistration(calls[c].key, calls[c].ret)

\* ------------------------------------------- claims on createPathMatcher
Matched == probe.called /\ "result" \in DOMAIN probe /\ probe.result # NoMatch

\* C31: when a match of createPathMatcher binds a named counted wildcard
\* `*min-max:name`, the sequence bound to name has between min and max
\* elements.
C31_CountedRunLength ==
  Matched =>
    \A k \in DOMAIN Split(probe.pattern) :
      LET part == Split(probe.pattern)[k]
      IN (IsCounted(part) /\ Len(Syntax(part).countSpec) = 2
          /\ Has(probe.result.segments, Syntax(part).name))
         => /\ Len(ValueOf(probe.result.segments, Syntax(part).name)) >= MinCount(Syntax(part).countSpec)
            /\ Len(ValueOf(probe.result.segments, Syntax(part).name)) <= MaxCount(Syntax(part).countSpec)

\* C37: on a dispatcher that holds only one pattern, matchRoute returns a
\* match for a path exactly when the matcher createPathMatcher makes of
\* the pattern returns one for that path, and both then return the same
\* params and the same segments.
C37_MatchersAgree ==
  (ProbedOne /\ Size(routes) = 1 /\ "result" \in DOMAIN probe /\ probe.pattern = OnlyRoute.path)
  => /\ (probe.match # NoMatch) <=> (probe.result # NoMatch)
     /\ probe.match # NoMatch
        => /\ probe.match.params = probe.result.params
           /\ probe.match.segments = probe.result.segments

\* ------------------------------------------- claims on AccessRateLimiter
InFlightRequests == {q \in DOMAIN handling : handling[q].pc \notin {"none", "done"}}

\* C39: whenever no request is in flight, every concurrency counter of the
\* storage is 0: what the handler added for a request it has taken away
\* again when the request is finished, however it finished.
C39_CountersReleased ==
  InFlightRequests = {}
  => \A e \in storage : e[1].type = "concurrency" => e[2] = 0

====
